---- MODULE Spec2Model ----
(***************************************************************************)
(* Event Aggregator API (src/server.js, first snapshot, lines 1-488).      *)
(*                                                                         *)
(* The model follows the program leaves first: JavaScript values and text, *)
(* the keyword classifier, Date parsing, the feed adapters, the indexed    *)
(* PRTIMES adapter, the FC Tokyo scrape adapter, the node-cache instance   *)
(* and getAllEvents with its Promise.all fan-out.                          *)
(***************************************************************************)
EXTENDS Integers, Sequences, FiniteSets, TLC

(***************************************************************************)
(* Bounds of the model.                                                    *)
(***************************************************************************)
\* longest text the classifier specification enumerates
MaxTextLen == 4
\* clock advances per behaviour
MaxTicks == 2
\* getAllEvents calls per behaviour
MaxRequests == 2
\* how many of the eight plain feeds of getAllEvents are registered
NumFeeds == 1
\* how many of the eight PRTIMES company ids are iterated
NumCompanyIds == 2

(***************************************************************************)
(* JavaScript values.  A string is the sequence of its characters; a       *)
(* character outside ASCII is written by its code point ("u30A4").  A      *)
(* string written in a syntax Date accepts is kept apart, by the instant   *)
(* it denotes; a plain string denotes no instant.  Instants and the clock  *)
(* count seconds since the epoch.                                          *)
(***************************************************************************)
Undefined == [t |-> "undefined"]
Obj == [t |-> "object"]
Str(s) == [t |-> "string", s |-> s]
DateStr(sec) == [t |-> "datestring", sec |-> sec]
Bool(b) == [t |-> "boolean", b |-> b]

\* JavaScript truthiness: undefined and '' are falsy, objects and non-empty strings truthy
Truthy(v) ==
    \/ v.t = "object"
    \/ v.t = "datestring"
    \/ (v.t = "string" /\ v.s # <<>>)
    \/ (v.t = "boolean" /\ v.b)

\* a || b
Or(a, b) == IF Truthy(a) THEN a ELSE b

IsString(v) == v.t \in {"string", "datestring"}

\* the characters of a string value that matter to the keyword search
Chars(v) == IF v.t = "string" THEN v.s ELSE <<>>

(***************************************************************************)
(* Classifier: src/server.js lines 22-36.                                  *)
(***************************************************************************)
eventKeywords ==
    <<
       <<"u30A4","u30D9","u30F3","u30C8">>,
       <<"e","v","e","n","t">>,
       <<"u958B","u50AC">>,
       <<"u5C55","u793A">>,
       <<"u5C55","u89A7","u4F1A">>,
       <<"u30A8","u30AD","u30B7","u30D3","u30B7","u30E7","u30F3">>,
       <<"e","x","h","i","b","i","t","i","o","n">>,
       <<"u30D5","u30A7","u30B9">>,
       <<"f","e","s","t","i","v","a","l">>,
       <<"u30E9","u30A4","u30D6">>,
       <<"l","i","v","e">>,
       <<"u30B3","u30F3","u30B5","u30FC","u30C8">>,
       <<"c","o","n","c","e","r","t">>,
       <<"u30EF","u30FC","u30AF","u30B7","u30E7","u30C3","u30D7">>,
       <<"w","o","r","k","s","h","o","p">>,
       <<"u30BB","u30DF","u30CA","u30FC">>,
       <<"s","e","m","i","n","a","r">>,
       <<"u4F53","u9A13">>,
       <<"e","x","p","e","r","i","e","n","c","e">>,
       <<"u9650","u5B9A">>,
       <<"u671F","u9593","u9650","u5B9A">>,
       <<"u30DD","u30C3","u30D7","u30A2","u30C3","u30D7">>,
       <<"p","o","p","u","p">>,
       <<"p","o","p","-","u","p">>,
       <<"u30AD","u30E3","u30F3","u30DA","u30FC","u30F3">>,
       <<"c","a","m","p","a","i","g","n">>,
       <<"u767A","u58F2">>,
       <<"r","e","l","e","a","s","e">>,
       <<"u30AA","u30FC","u30D7","u30F3">>,
       <<"o","p","e","n">>,
       <<"u30B0","u30E9","u30F3","u30C9","u30AA","u30FC","u30D7","u30F3">>,
       <<"g","r","a","n","d"," ","o","p","e","n","i","n","g">>,
       <<"u30B3","u30E9","u30DC">>,
       <<"c","o","l","l","a","b","o","r","a","t","i","o","n">>,
       <<"u7279","u5225">>,
       <<"s","p","e","c","i","a","l">>,
       <<"u30D5","u30A7","u30A2">>,
       <<"f","a","i","r">>
    >>

UpperChars ==
    <<"A","B","C","D","E","F","G","H","I","J","K","L","M",
      "N","O","P","Q","R","S","T","U","V","W","X","Y","Z">>

LowerChars ==
    <<"a","b","c","d","e","f","g","h","i","j","k","l","m",
      "n","o","p","q","r","s","t","u","v","w","x","y","z">>

\* String.prototype.toLowerCase on one character
toLowerCaseChar(c) ==
    IF \E i \in DOMAIN UpperChars : UpperChars[i] = c
    THEN LowerChars[CHOOSE i \in DOMAIN UpperChars : UpperChars[i] = c]
    ELSE c

\* String.prototype.toLowerCase
toLowerCase(s) == [i \in DOMAIN s |-> toLowerCaseChar(s[i])]

\* whether keyword k stands in s at position p, compared character by character
MatchesAt(s, k, p) ==
    /\ p + Len(k) - 1 <= Len(s)
    /\ s[p] = k[1]
    /\ \A j \in 2..Len(k) : s[p + j - 1] = k[j]

RECURSIVE indexOfFrom(_, _, _)
\* String.prototype.indexOf scanning left to right from position p; 0 when absent
indexOfFrom(s, k, p) ==
    IF p + Len(k) - 1 > Len(s) THEN 0
    ELSE IF MatchesAt(s, k, p) THEN p
    ELSE indexOfFrom(s, k, p + 1)

includes_AtStart(s, k) == MatchesAt(s, k, 1)

\* String.prototype.includes
includes(s, k) == indexOfFrom(s, k, 1) # 0

\* keyword.toLowerCase(), for each keyword of the list
lowerKeywords == [i \in DOMAIN eventKeywords |-> toLowerCase(eventKeywords[i])]

RECURSIVE someKeyword(_, _)
\* eventKeywords.some(keyword => lowerText.includes(keyword.toLowerCase())), from index i
someKeyword(lowerText, i) ==
    IF i > Len(eventKeywords) THEN FALSE
    ELSE IF includes(lowerText, lowerKeywords[i]) THEN TRUE
    ELSE someKeyword(lowerText, i + 1)

\* isEventRelated raises a TypeError when text is truthy and has no toLowerCase
isEventRelatedThrows(text) == Truthy(text) /\ ~IsString(text)

\* isEventRelated(text), for a text on which it does not raise
isEventRelated(text) ==
    IF ~Truthy(text) THEN FALSE
    ELSE someKeyword(toLowerCase(Chars(text)), 1)

(***************************************************************************)
(* Dates.  new Date(v).getTime() is NaN for anything Date cannot parse;    *)
(* the subtraction of the sort comparators then yields NaN as well.        *)
(***************************************************************************)
\* the time value of an Invalid Date (instants are never negative here)
NaN == -1

\* new Date(v).getTime()
NewDate(v) == IF v.t = "datestring" THEN v.sec ELSE NaN

\* new Date(sec).toISOString(), for a valid time value
toISOString(sec) == DateStr(sec)

(***************************************************************************)
(* Feed items as rss-parser hands them over, and what a feed URL answers.  *)
(***************************************************************************)
Item(title, link, pubDate, isoDate, contentSnippet) ==
    [title |-> title, link |-> link, pubDate |-> pubDate, isoDate |-> isoDate,
     contentSnippet |-> contentSnippet, description |-> Undefined]

FailKinds == {"timeout", "refused", "http500", "malformed"}

Fail(kind) == [kind |-> kind, items |-> <<>>]
Ok(items) == [kind |-> "ok", items |-> items]

\* the item's || chains of fetchRSSFeed
itemDescription(item) == Or(item.contentSnippet, item.description)

\* whether building the record of item raises: isEventRelated on a non-string title,
\* or on a non-string description once the title has not matched
mapItemThrows(item) ==
    \/ isEventRelatedThrows(item.title)
    \/ (isEventRelatedThrows(itemDescription(item)) /\ ~isEventRelated(item.title))

\* the object literal of feed.items.map, src/server.js lines 42-49
mapItem(item, sourceName, now) ==
    [title |-> Or(item.title, Str(<<>>)),
     link |-> Or(item.link, Str(<<>>)),
     pubDate |-> Or(Or(item.pubDate, item.isoDate), toISOString(now)),
     source |-> sourceName,
     description |-> Or(itemDescription(item), Str(<<>>)),
     isEvent |-> Bool(isEventRelated(item.title) \/ isEventRelated(itemDescription(item)))]

\* what an async function hands to its caller
Fulfilled(val) == [st |-> "fulfilled", val |-> val]
Rejected == [st |-> "rejected", val |-> <<>>]

\* parser.parseURL followed by feed.items.map: the records, or a raise
parseAndMapThrows(resp) ==
    \/ resp.kind # "ok"
    \/ \E i \in DOMAIN resp.items : mapItemThrows(resp.items[i])

parseAndMap(resp, sourceName, now) ==
    [i \in DOMAIN resp.items |-> mapItem(resp.items[i], sourceName, now)]

fetchRSSFeed_ErrorRecord(resp, sourceName, now) ==
    IF parseAndMapThrows(resp)
    THEN Fulfilled(<<mapItem(Item(Undefined, Undefined, Undefined, Undefined, Undefined),
                             sourceName, now)>>)
    ELSE Fulfilled(parseAndMap(resp, sourceName, now))

fetchRSSFeed_NoCatch(resp, sourceName, now) ==
    IF parseAndMapThrows(resp) THEN Rejected
    ELSE Fulfilled(parseAndMap(resp, sourceName, now))

\* fetchRSSFeed(url, sourceName), src/server.js lines 39-54, given the answer of url
fetchRSSFeed(resp, sourceName, now) ==
    IF parseAndMapThrows(resp) THEN Fulfilled(<<>>)
    ELSE Fulfilled(parseAndMap(resp, sourceName, now))

(***************************************************************************)
(* PRTIMES, src/server.js lines 226-251: one feed per company id, fetched  *)
(* one after the other, each inside its own try.                           *)
(***************************************************************************)
allCompanyIds == <<169497, 130855, 34897, 32114, 3710, 12471, 7414, 130313>>

companyIds == SubSeq(allCompanyIds, 1, NumCompanyIds)

\* the source label written on the records of company id
prTimesSource(id) == <<"PRTIMES">>

prTimesItems_Abort(allItems, resp, id, now) ==
    IF parseAndMapThrows(resp) THEN <<>>
    ELSE allItems \o parseAndMap(resp, prTimesSource(id), now)

\* one turn of the for loop: allItems after the answer for id
prTimesItems(allItems, resp, id, now) ==
    IF parseAndMapThrows(resp) THEN allItems
    ELSE allItems \o parseAndMap(resp, prTimesSource(id), now)

(***************************************************************************)
(* Array.prototype.sort with the comparator                                *)
(*     (a, b) => new Date(b.pubDate) - new Date(a.pubDate)                 *)
(* of src/server.js lines 215 and 399.  A comparator result of NaN counts  *)
(* as +0.  The procedure is the engine's for arrays shorter than 64: find  *)
(* the leading run, reverse it when strictly descending, then insert the   *)
(* remaining elements by binary search.  For longer arrays the engine      *)
(* merges such runs, which gives the same order whenever every date is     *)
(* valid.                                                                  *)
(***************************************************************************)
byDateDescending(a, b) ==
    LET x == NewDate(b.pubDate)
        y == NewDate(a.pubDate)
    IN  IF x = NaN \/ y = NaN THEN 0 ELSE x - y

RECURSIVE runEnd(_, _, _)
\* the last index of the run that starts at 1 and has reached idx - 1
runEnd(s, idx, isDescending) ==
    IF idx > Len(s) THEN Len(s)
    ELSE LET order == byDateDescending(s[idx], s[idx - 1])
         IN  IF isDescending
             THEN IF order >= 0 THEN idx - 1 ELSE runEnd(s, idx + 1, isDescending)
             ELSE IF order < 0 THEN idx - 1 ELSE runEnd(s, idx + 1, isDescending)

reverseRange(s, n) == [i \in DOMAIN s |-> IF i <= n THEN s[n + 1 - i] ELSE s[i]]

RECURSIVE insertionPoint(_, _, _, _)
\* binary search of pivot's place in the sorted prefix s[left .. right - 1] (1-based)
insertionPoint(s, pivot, left, right) ==
    IF left >= right THEN left
    ELSE LET mid == left + ((right - left) \div 2)
         IN  IF byDateDescending(pivot, s[mid]) < 0
             THEN insertionPoint(s, pivot, left, mid)
             ELSE insertionPoint(s, pivot, mid + 1, right)

RECURSIVE binaryInsertionSort(_, _)
\* s[1 .. start - 1] is sorted; insert s[start], s[start + 1], ...
binaryInsertionSort(s, start) ==
    IF start > Len(s) THEN s
    ELSE LET pivot == s[start]
             at == insertionPoint(s, pivot, 1, start)
             moved == [i \in DOMAIN s |->
                          IF i < at \/ i > start THEN s[i]
                          ELSE IF i = at THEN pivot
                          ELSE s[i - 1]]
         IN  binaryInsertionSort(moved, start + 1)

sortByDate_Unsorted(s) == s

\* items.sort((a, b) => new Date(b.pubDate) - new Date(a.pubDate))
sortByDate(s) ==
    IF Len(s) < 2 THEN s
    ELSE LET isDescending == byDateDescending(s[2], s[1]) < 0
             n == runEnd(s, 3, isDescending)
             run == IF isDescending THEN reverseRange(s, n) ELSE s
         IN  binaryInsertionSort(run, n + 1)

\* Array.prototype.slice(0, n)
slice(s, n) == SubSeq(s, 1, IF Len(s) < n THEN Len(s) ELSE n)

(***************************************************************************)
(* Text helpers of the scrape adapter: trim, the regular expressions       *)
(*   /^\/news\/\d+$/    /(\d{4})\.(\d{1,2})\.(\d{1,2})/    /\[([^\]]+)\]/  *)
(* and the conversion of a matched date to an ISO string.                  *)
(***************************************************************************)
Digits == <<"0","1","2","3","4","5","6","7","8","9">>

IsDigit(c) == \E i \in DOMAIN Digits : Digits[i] = c

DigitValue(c) == (CHOOSE i \in DOMAIN Digits : Digits[i] = c) - 1

RECURSIVE NumberOf(_)
\* the number a string of digits denotes
NumberOf(ds) ==
    IF ds = <<>> THEN 0
    ELSE NumberOf(SubSeq(ds, 1, Len(ds) - 1)) * 10 + DigitValue(ds[Len(ds)])

RECURSIVE trimStart(_)
trimStart(s) == IF s # <<>> /\ Head(s) = " " THEN trimStart(Tail(s)) ELSE s

RECURSIVE trimEnd(_)
trimEnd(s) ==
    IF s # <<>> /\ s[Len(s)] = " " THEN trimEnd(SubSeq(s, 1, Len(s) - 1)) ELSE s

\* String.prototype.trim
trim(s) == trimEnd(trimStart(s))

\* String.prototype.startsWith
startsWith(s, prefix) ==
    Len(prefix) <= Len(s) /\ SubSeq(s, 1, Len(prefix)) = prefix

NewsPrefix == <<"/","n","e","w","s","/">>

\* href.match(/^\/news\/\d+$/)
isNewsDetailHref(href) ==
    /\ startsWith(href, NewsPrefix)
    /\ Len(href) > Len(NewsPrefix)
    /\ \A i \in (Len(NewsPrefix) + 1)..Len(href) : IsDigit(href[i])

DigitAt(s, p) == p <= Len(s) /\ IsDigit(s[p])
CharAt(s, p, c) == p <= Len(s) /\ s[p] = c

\* how many digits \d{1,2} takes at p (greedy), 0 when none
digitRun(s, p) == IF ~DigitAt(s, p) THEN 0 ELSE IF DigitAt(s, p + 1) THEN 2 ELSE 1

\* the groups of the date expression when it matches at p, <<>> otherwise.
\* \d{1,2} may give up its second digit only if a '.' follows the first, which a
\* second digit excludes; so the month is its greedy run, and so is the day.
dateGroupsAt(s, p) ==
    LET m == digitRun(s, p + 5)
        d == digitRun(s, p + 6 + m)
    IN  IF /\ \A i \in 0..3 : DigitAt(s, p + i)
           /\ CharAt(s, p + 4, ".")
           /\ m > 0
           /\ CharAt(s, p + 5 + m, ".")
           /\ d > 0
        THEN << SubSeq(s, p, p + 3),
                SubSeq(s, p + 5, p + 4 + m),
                SubSeq(s, p + 6 + m, p + 5 + m + d) >>
        ELSE <<>>

RECURSIVE dateMatchFrom(_, _)
\* s.match(/(\d{4})\.(\d{1,2})\.(\d{1,2})/): the groups of the leftmost match, <<>> for null
dateMatchFrom(s, p) ==
    IF p > Len(s) THEN <<>>
    ELSE IF dateGroupsAt(s, p) # <<>> THEN dateGroupsAt(s, p)
    ELSE dateMatchFrom(s, p + 1)

dateMatch(s) == dateMatchFrom(s, 1)

\* dateMatch[0], the matched text
dateMatchText(s) ==
    LET g == dateMatch(s)
    IN  IF g = <<>> THEN <<>> ELSE g[1] \o <<".">> \o g[2] \o <<".">> \o g[3]

RECURSIVE closingBracket(_, _)
\* the first ']' at or after q, 0 when there is none
closingBracket(s, q) ==
    IF q > Len(s) THEN 0 ELSE IF s[q] = "]" THEN q ELSE closingBracket(s, q + 1)

RECURSIVE categoryMatchFrom(_, _)
\* s.match(/\[([^\]]+)\]/): group 1 of the leftmost match, <<>> for null
categoryMatchFrom(s, p) ==
    IF p > Len(s) THEN <<>>
    ELSE LET q == closingBracket(s, p + 1)
         IN  IF s[p] = "[" /\ q > p + 1 THEN SubSeq(s, p + 1, q - 1)
             ELSE categoryMatchFrom(s, p + 1)

categoryMatch(s) == categoryMatchFrom(s, 1)

\* String.prototype.padStart(2, '0')
padStart2(ds) == IF Len(ds) < 2 THEN <<"0">> \o ds ELSE ds

\* days from 1970-01-01 to the civil date y-m-d (proleptic Gregorian)
daysFromCivil(y, m, d) ==
    LET yy == IF m <= 2 THEN y - 1 ELSE y
        era == yy \div 400
        yoe == yy - era * 400
        mp == IF m > 2 THEN m - 3 ELSE m + 9
        doy == ((153 * mp + 2) \div 5) + d - 1
        doe == yoe * 365 + (yoe \div 4) - (yoe \div 100) + doy
    IN  era * 146097 + doe - 719468

\* new Date(`${year}-${month.padStart(2,'0')}-${day.padStart(2,'0')}`).getTime():
\* the engine's date parser takes a month of 01..12 and a day of 01..31 and lets a
\* day beyond the month's end run into the next month; anything else is invalid.
isoDateTime(g) ==
    LET y == NumberOf(g[1])
        m == NumberOf(padStart2(g[2]))
        d == NumberOf(padStart2(g[3]))
    IN  IF m \in 1..12 /\ d \in 1..31
        THEN (daysFromCivil(y, m, 1) + d - 1) * 86400
        ELSE NaN

\* toISOString raises a RangeError on an Invalid Date
isoDateThrows(g) == isoDateTime(g) = NaN

(***************************************************************************)
(* The FC Tokyo scrape adapter, src/server.js lines 57-223.  A page is     *)
(* what the adapter reads of the document: for each of the five candidate  *)
(* selectors the elements it matches, and the a elements in document       *)
(* order.  An element carries the text of its first date node, of its      *)
(* first category node and of its first link, and that link's href; an a   *)
(* element carries its href, its text and the text of its parent.          *)
(***************************************************************************)
MaxScrapeItems == 30

NumSelectors == 5

BaseUrl == <<"h","t","t","p","s",":","/","/","w","w","w",".","f","c","t","o","k","y","o",".","c","o",".","j","p">>

NewsPath == <<"/","n","e","w","s","/">>

Http == <<"h","t","t","p">>

EventKana == <<"u30A4","u30D9","u30F3","u30C8">>

FCTokyoSource == <<"FC", "u6771", "u4EAC">>

Elem(dateText, categoryText, title, link) ==
    [dateText |-> dateText, categoryText |-> categoryText, title |-> title, link |-> link]

Anchor(href, text, parentText) ==
    [href |-> href, text |-> text, parentText |-> parentText]

Page(selected, anchors) == [selected |-> selected, anchors |-> anchors]

NoMatches == [i \in 1..NumSelectors |-> <<>>]

FailPage(kind) == [kind |-> kind, page |-> Page(NoMatches, <<>>)]
OkPage(page) == [kind |-> "ok", page |-> page]

RECURSIVE firstMatching(_, _)
\* the for loop over newsSelectors: the elements of the first selector that matches
firstMatching(page, i) ==
    IF i > NumSelectors THEN <<>>
    ELSE IF Len(page.selected[i]) > 0 THEN page.selected[i]
    ELSE firstMatching(page, i + 1)

\* isEvent: isEventRelated(title) || (categoryText && categoryText.includes('イベント'))
scrapeIsEvent(title, categoryText) ==
    IF isEventRelated(Str(title)) THEN Bool(TRUE)
    ELSE IF categoryText = <<>> THEN Str(<<>>)
    ELSE Bool(includes(categoryText, EventKana))

\* the anchors the direct link extraction keeps, lines 107-113
isNewsLink(a) ==
    /\ a.href.t = "string"
    /\ startsWith(a.href.s, NewsPath)
    /\ isNewsDetailHref(a.href.s)
    /\ Len(trim(a.text)) > 10

\* the entry pushed on newsLinks, lines 115-138
newsLinkOf(a) ==
    [title |-> trim(a.text),
     href |-> a.href.s,
     dateText |-> dateMatchText(a.parentText),
     categoryText |-> categoryMatch(a.parentText)]

newsLinksOf(page) ==
    LET kept == SelectSeq(page.anchors, isNewsLink)
    IN  [i \in DOMAIN kept |-> newsLinkOf(kept[i])]

\* lines 148-153 raise when the date found does not convert
newsItemThrows(news) ==
    news.dateText # <<>> /\ dateMatch(news.dateText) # <<>>
        /\ isoDateThrows(dateMatch(news.dateText))

\* the record of lines 146-165
newsItem(news, now) ==
    LET pubDate == IF news.dateText # <<>> /\ dateMatch(news.dateText) # <<>>
                   THEN toISOString(isoDateTime(dateMatch(news.dateText)))
                   ELSE toISOString(now)
        fullTitle == IF news.categoryText # <<>>
                     THEN <<"[">> \o news.categoryText \o <<"]", " ">> \o news.title
                     ELSE news.title
    IN  [title |-> Str(fullTitle),
         link |-> Str(BaseUrl \o news.href),
         pubDate |-> pubDate,
         source |-> FCTokyoSource,
         description |-> Str(fullTitle),
         isEvent |-> scrapeIsEvent(news.title, news.categoryText)]

\* the selector branch keeps an element only with a date and a title, line 187
isDatedElem(e) ==
    /\ trim(e.dateText) # <<>>
    /\ trim(e.title) # <<>>
    /\ dateMatch(trim(e.dateText)) # <<>>

elemItemThrows(e) == isDatedElem(e) /\ isoDateThrows(dateMatch(trim(e.dateText)))

\* the record of lines 189-206
elemItem(e) ==
    LET categoryText == trim(e.categoryText)
        title == trim(e.title)
        absoluteLink == IF Truthy(e.link) /\ startsWith(Chars(e.link), Http)
                        THEN Chars(e.link)
                        ELSE BaseUrl \o (IF Truthy(e.link) THEN Chars(e.link) ELSE NewsPath)
    IN  [title |-> Str(IF categoryText # <<>>
                       THEN <<"[">> \o categoryText \o <<"]", " ">> \o title
                       ELSE title),
         link |-> Str(absoluteLink),
         pubDate |-> toISOString(isoDateTime(dateMatch(trim(e.dateText)))),
         source |-> FCTokyoSource,
         description |-> Str(IF categoryText # <<>>
                             THEN categoryText \o <<" ">> \o title
                             ELSE title),
         isEvent |-> scrapeIsEvent(title, categoryText)]

\* whether the extraction of lines 66-210 raises
extractThrows(page) ==
    LET elems == slice(firstMatching(page, 1), MaxScrapeItems)
        links == slice(newsLinksOf(page), MaxScrapeItems)
    IN  IF Len(elems) = 0
        THEN \E i \in DOMAIN links : newsItemThrows(links[i])
        ELSE \E i \in DOMAIN elems : elemItemThrows(elems[i])

\* items after lines 66-210
extract(page, now) ==
    LET elems == slice(firstMatching(page, 1), MaxScrapeItems)
        links == slice(newsLinksOf(page), MaxScrapeItems)
        dated == SelectSeq(elems, isDatedElem)
    IN  IF Len(elems) = 0
        THEN [i \in DOMAIN links |-> newsItem(links[i], now)]
        ELSE [i \in DOMAIN dated |-> elemItem(dated[i])]

fetchFCTokyoRSS_NoCatch(resp, now) ==
    IF resp.kind # "ok" \/ extractThrows(resp.page) THEN Rejected
    ELSE Fulfilled(slice(sortByDate(extract(resp.page, now)), MaxScrapeItems))

\* fetchFCTokyoRSS(), given the answer of https://www.fctokyo.co.jp/news/
fetchFCTokyoRSS(resp, now) ==
    IF resp.kind # "ok" \/ extractThrows(resp.page) THEN Fulfilled(<<>>)
    ELSE Fulfilled(slice(sortByDate(extract(resp.page, now)), MaxScrapeItems))

(***************************************************************************)
(* The text-based extraction of the second fetchFCTokyoRSS of              *)
(* src/server.js, lines 577-629, taken when no selector matches: the text  *)
(* of the body is split into lines and scanned once with three variables.  *)
(***************************************************************************)
\* line.match(/^(\d{4})\.(\d{1,2})\.(\d{1,2})$/)
isDateLine(line) ==
    LET g == dateGroupsAt(line, 1)
    IN  g # <<>> /\ Len(line) = 6 + Len(g[2]) + Len(g[3])

\* line.match(/^\[([^\]]+)\]$/)
isCategoryLine(line) ==
    /\ Len(line) >= 3
    /\ line[1] = "["
    /\ closingBracket(line, 2) = Len(line)

\* line.match(/^-+$/)
isDashLine(line) == line # <<>> /\ \A i \in DOMAIN line : line[i] = "-"

\* the test of line 605
isTitleLine(currentDate, currentCategory, line) ==
    /\ currentDate # <<>>
    /\ currentCategory # <<>>
    /\ Len(line) > 10
    /\ ~isDashLine(line)
    /\ ~isDateLine(line)

\* the record of lines 609-619
textItem(currentDate, currentCategory, currentTitle) ==
    [title |-> Str(<<"[">> \o currentCategory \o <<"]", " ">> \o currentTitle),
     link |-> Str(BaseUrl \o NewsPath),
     pubDate |-> toISOString(isoDateTime(dateMatch(currentDate))),
     source |-> FCTokyoSource,
     description |-> Str(currentCategory \o <<" ">> \o currentTitle),
     isEvent |-> Bool(isEventRelated(Str(currentTitle))
                        \/ includes(currentCategory, EventKana))]

resetCurrent_Keep(current) == current

\* lines 622-624: the remembered date, category and title are cleared after a push
resetCurrent(current) == <<>>

\* the variables of the loop before its first iteration, lines 583-585
textStart ==
    [currentDate |-> <<>>, currentCategory |-> <<>>, items |-> <<>>,
     thrown |-> FALSE, broken |-> FALSE]

\* one iteration of the loop of lines 587-629 on lines[i]; nothing happens once
\* toISOString has raised or the loop was left by break
textStep(st, rawLine) ==
    LET line == trim(rawLine)
    IN  IF st.thrown \/ st.broken THEN st
        ELSE IF isDateLine(line) THEN [st EXCEPT !.currentDate = line]
        ELSE IF isCategoryLine(line)
        THEN [st EXCEPT !.currentCategory = SubSeq(line, 2, Len(line) - 1)]
        ELSE IF isTitleLine(st.currentDate, st.currentCategory, line)
        THEN IF isoDateThrows(dateMatch(st.currentDate))
             THEN [st EXCEPT !.thrown = TRUE]
             ELSE LET pushed == Append(st.items,
                                       textItem(st.currentDate, st.currentCategory, line))
                  IN  [currentDate |-> resetCurrent(st.currentDate),
                       currentCategory |-> resetCurrent(st.currentCategory),
                       items |-> pushed,
                       thrown |-> FALSE,
                       broken |-> Len(pushed) >= MaxScrapeItems]
        ELSE st

RECURSIVE textLoop(_, _, _, _)
\* the iterations lo..hi of the loop, in order, from the variables st
textLoop(lines, lo, hi, st) ==
    IF lo > hi THEN st
    ELSE IF lo = hi THEN textStep(st, lines[lo])
    ELSE LET mid == (lo + hi) \div 2
             half == textLoop(lines, lo, mid, st)
         IN  IF half.thrown \/ half.broken THEN half
             ELSE textLoop(lines, mid + 1, hi, half)

\* the loop of lines 587-629: the items pushed, and whether toISOString raised
textScan(lines) == textLoop(lines, 1, Len(lines), textStart)

\* the second fetchFCTokyoRSS on a page that no selector matches, given the lines
\* of its body text: lines 674-684 sort, cut and catch
fetchFCTokyoText(lines) ==
    LET scan == textScan(lines)
    IN  IF scan.thrown THEN Fulfilled(<<>>)
        ELSE Fulfilled(slice(sortByDate(scan.items), MaxScrapeItems))

(***************************************************************************)
(* The node-cache instance of src/server.js line 16 and the two calls made *)
(* on it: get deletes and misses an entry whose expiry lies before now,    *)
(* set stores the value with expiry now + stdTTL.                          *)
(***************************************************************************)
stdTTL == 1800

cacheKey == "all_events"

NoEntry == [has |-> FALSE, v |-> <<>>, t |-> 0]

cacheExpired_Never(entry, now) == FALSE

cacheSet_Patch(c, key, value, now) ==
    [c EXCEPT ![key] = [has |-> TRUE, v |-> c[key].v \o value, t |-> now + stdTTL]]

\* node-cache's check of an entry: expired when its time has passed
cacheExpired(entry, now) == entry.t # 0 /\ entry.t < now

\* cache.get(key) finds a value
cacheHas_NonEmpty(c, key, now) ==
    c[key].has /\ ~cacheExpired(c[key], now) /\ c[key].v # <<>>

cacheHas(c, key, now) == c[key].has /\ ~cacheExpired(c[key], now)

\* the cache after cache.get(key): an expired entry is deleted
cacheAfterGet(c, key, now) ==
    IF c[key].has /\ cacheExpired(c[key], now) THEN [c EXCEPT ![key] = NoEntry] ELSE c

\* cache.set(key, value)
cacheSet(c, key, value, now) ==
    [c EXCEPT ![key] = [has |-> TRUE, v |-> value, t |-> now + stdTTL]]

(***************************************************************************)
(* The adapters registered in getAllEvents, src/server.js lines 372-383,   *)
(* in the order their results are concatenated (lines 385-396): GIZMODO,   *)
(* PRTIMES, the other plain feeds, FC Tokyo.                               *)
(***************************************************************************)
allFeeds ==
    << <<"GIZMODO">>, <<"OCEANS">>, <<"ITmedia">>, <<"GQ JAPAN">>,
       <<"WIRED.jp">>, <<"WWDJAPAN">>, <<"FASHION PRESS">>, <<"JFA">> >>

feeds == SubSeq(allFeeds, 1, NumFeeds)

Clients == {"c1"}

\* the clients of the specification with concurrent requests
AllClients == {"c1", "c2"}

\* GET /api/events/all and GET /api/events/filtered
Routes == {"all", "filtered"}

\* no answer yet
NoResp == [kind |-> "none", items |-> <<>>, page |-> Page(NoMatches, <<>>)]

Idle == [st |-> "idle", val |-> <<>>, resp |-> NoResp]
Pending == [st |-> "pending", val |-> <<>>, resp |-> NoResp]
Settled(outcome, resp) == [st |-> outcome.st, val |-> outcome.val, resp |-> resp]

PrIdle == [st |-> "idle", val |-> <<>>, resps |-> <<>>]
PrPending == [st |-> "pending", val |-> <<>>, resps |-> <<>>]

NoOut == [st |-> "none", events |-> <<>>]

IdleRequest ==
    [pc |-> "idle", hit |-> FALSE, at |-> 0, entryAt |-> 0,
     feed |-> [k \in 1..NumFeeds |-> Idle], pr |-> PrIdle, fc |-> Idle,
     out |-> NoOut]

VARIABLES
    now,      \* the clock, seconds since the epoch
    ticks,    \* clock advances so far
    nreq,     \* getAllEvents calls so far
    calls,    \* upstream requests issued so far (parser.parseURL, axios.get)
    cache,    \* the node-cache data
    lastSet,  \* the time of the last cache.set (0: none yet)
    req,      \* per client, the getAllEvents call it has made last
    cin,      \* classifier specification: the input
    cout,     \* classifier specification: the result
    arun,     \* adapter specification: the adapter run last, its answers and outcome
    http      \* per client, the route it has requested last and the response sent

vars == <<now, ticks, nreq, calls, cache, lastSet, req, cin, cout, arun, http>>

NotRun == [ran |-> FALSE]

NoRes == [status |-> 0, success |-> FALSE, count |-> 0, events |-> <<>>]

NoHttp == [route |-> "none", res |-> NoRes]

InitOrch ==
    /\ now = 1761955200
    /\ ticks = 0
    /\ nreq = 0
    /\ calls = 0
    /\ cache = [k \in {cacheKey} |-> NoEntry]
    /\ lastSet = 0
    /\ req = [c \in AllClients |-> IdleRequest]
    /\ http = [c \in AllClients |-> NoHttp]

Init ==
    /\ InitOrch
    /\ cin = Undefined
    /\ cout = NotRun
    /\ arun = NotRun

(***************************************************************************)
(* getAllEvents, src/server.js lines 350-404.                              *)
(***************************************************************************)
\* time passes
Tick(d) ==
    /\ ticks < MaxTicks
    /\ now' = now + d
    /\ ticks' = ticks + 1
    /\ UNCHANGED <<nreq, calls, cache, lastSet, req, cin, cout, arun, http>>

\* lines 351-357: the entry is there, it is returned at once
StartHit(c) ==
    /\ req[c].pc \in {"idle", "done"}
    /\ nreq < MaxRequests
    /\ cacheHas(cache, cacheKey, now)
    /\ nreq' = nreq + 1
    /\ req' = [req EXCEPT ![c] =
                  [IdleRequest EXCEPT !.pc = "done", !.hit = TRUE, !.at = now,
                      !.entryAt = lastSet,
                      !.out = [st |-> "returned", events |-> cache[cacheKey].v]]]
    /\ cache' = cacheAfterGet(cache, cacheKey, now)
    /\ UNCHANGED <<now, ticks, calls, lastSet, cin, cout, arun>>

\* lines 351-383: no entry; every adapter is called and issues its first request
StartMiss(c) ==
    /\ req[c].pc \in {"idle", "done"}
    /\ nreq < MaxRequests
    /\ ~cacheHas(cache, cacheKey, now)
    /\ nreq' = nreq + 1
    /\ cache' = cacheAfterGet(cache, cacheKey, now)
    /\ calls' = calls + NumFeeds + (IF NumCompanyIds > 0 THEN 1 ELSE 0) + 1
    /\ req' = [req EXCEPT ![c] =
                  [IdleRequest EXCEPT !.pc = "waiting", !.at = now, !.entryAt = lastSet,
                      !.feed = [k \in 1..NumFeeds |-> Pending],
                      !.pr = IF NumCompanyIds > 0 THEN PrPending
                             ELSE [PrIdle EXCEPT !.st = "fulfilled"],
                      !.fc = Pending]]
    /\ UNCHANGED <<now, ticks, lastSet, cin, cout, arun>>

\* the answer to a plain feed's parser.parseURL arrives: fetchRSSFeed settles
FeedSettle(c, k, resp) ==
    /\ req[c].pc = "waiting"
    /\ req[c].feed[k].st = "pending"
    /\ req' = [req EXCEPT ![c].feed[k] = Settled(fetchRSSFeed(resp, feeds[k], now), resp)]
    /\ UNCHANGED <<now, ticks, nreq, calls, cache, lastSet, cin, cout, arun, http>>

\* the answer for the current company id arrives: the loop of lines 230-248 takes
\* one turn and either requests the next id or returns allItems
PRTimesAnswer(c, resp) ==
    /\ req[c].pc = "waiting"
    /\ req[c].pr.st = "pending"
    /\ LET i == Len(req[c].pr.resps) + 1
           allItems == prTimesItems(req[c].pr.val, resp, companyIds[i], now)
       IN  /\ req' = [req EXCEPT ![c].pr =
                         [st |-> IF i = NumCompanyIds THEN "fulfilled" ELSE "pending",
                          val |-> allItems,
                          resps |-> Append(req[c].pr.resps, resp)]]
           /\ calls' = IF i = NumCompanyIds THEN calls ELSE calls + 1
    /\ UNCHANGED <<now, ticks, nreq, cache, lastSet, cin, cout, arun, http>>

\* the answer to axios.get arrives: fetchFCTokyoRSS settles
FCTokyoSettle(c, resp) ==
    /\ req[c].pc = "waiting"
    /\ req[c].fc.st = "pending"
    /\ req' = [req EXCEPT ![c].fc = Settled(fetchFCTokyoRSS(resp, now), resp)]
    /\ UNCHANGED <<now, ticks, nreq, calls, cache, lastSet, cin, cout, arun, http>>

AdapterStates(r) == {r.feed[k].st : k \in 1..NumFeeds} \cup {r.pr.st, r.fc.st}

RECURSIVE concatFeeds(_, _)
\* ...oceans, ...itmediaBusiness, and so on: the plain feeds from index k
concatFeeds(r, k) ==
    IF k > NumFeeds THEN <<>> ELSE r.feed[k].val \o concatFeeds(r, k + 1)

\* lines 385-396
concatAll(r) ==
    (IF NumFeeds > 0 THEN r.feed[1].val ELSE <<>>)
        \o r.pr.val \o concatFeeds(r, 2) \o r.fc.val

RECURSIVE uniqueByLink(_)
\* events without the records whose link an earlier record has
uniqueByLink(events) ==
    IF events = <<>> THEN <<>>
    ELSE LET rest == uniqueByLink(SubSeq(events, 1, Len(events) - 1))
             last == events[Len(events)]
         IN  IF \E i \in DOMAIN rest : rest[i].link = last.link THEN rest
             ELSE Append(rest, last)

mergeEvents_UniqueLinks(r) == sortByDate(uniqueByLink(concatAll(r)))

\* lines 385-399: allEvents after the sort
mergeEvents(r) == sortByDate(concatAll(r))

\* Promise.all settles: with a rejection the await raises and getAllEvents rejects;
\* otherwise lines 385-403 run to the return
Finish(c) ==
    /\ req[c].pc = "waiting"
    /\ "pending" \notin AdapterStates(req[c]) \ {IF "rejected" \in AdapterStates(req[c])
                                                  THEN "pending" ELSE "none"}
    /\ IF "rejected" \in AdapterStates(req[c])
       THEN /\ req' = [req EXCEPT ![c].pc = "done",
                                  ![c].out = [st |-> "thrown", events |-> <<>>]]
            /\ UNCHANGED <<cache, lastSet>>
       ELSE LET allEvents == mergeEvents(req[c])
            IN  /\ cache' = cacheSet(cache, cacheKey, allEvents, now)
                /\ lastSet' = now
                /\ req' = [req EXCEPT ![c].pc = "done",
                                      ![c].out = [st |-> "returned", events |-> allEvents]]
    /\ UNCHANGED <<now, ticks, nreq, calls, cin, cout, arun>>

(***************************************************************************)
(* The handlers of GET /api/events/all and GET /api/events/filtered,       *)
(* src/server.js lines 407-442: each awaits getAllEvents() and answers.    *)
(***************************************************************************)
filterEvents_Everything(events) == events

\* allEvents.filter(item => item.isEvent), line 428
filterEvents(events) == SelectSeq(events, LAMBDA e : Truthy(e.isEvent))

\* the response of the handler of route once getAllEvents has settled with out
respond(route, out) ==
    IF out.st = "thrown"
    THEN [status |-> 500, success |-> FALSE, count |-> 0, events |-> <<>>]
    ELSE LET events == IF route = "filtered" THEN filterEvents(out.events)
                       ELSE out.events
         IN  [status |-> 200, success |-> TRUE, count |-> Len(events), events |-> events]

\* a request that getAllEvents answers from the cache
HandleHit(c, route) ==
    /\ StartHit(c)
    /\ http' = [http EXCEPT ![c] = [route |-> route, res |-> respond(route, req'[c].out)]]

\* a request for which getAllEvents starts a fetch cycle
HandleMiss(c, route) ==
    /\ StartMiss(c)
    /\ http' = [http EXCEPT ![c] = [route |-> route, res |-> NoRes]]

\* the fetch cycle of the request ends and the handler answers
HandleFinish(c) ==
    /\ Finish(c)
    /\ http' = [http EXCEPT ![c].res = respond(http[c].route, req'[c].out)]

(***************************************************************************)
(* What the upstreams may answer.                                          *)
(***************************************************************************)
TitleResults == <<"R","e","s","u","l","t","s">>
TitleOpenDay == <<"O","p","e","n"," ","d","a","y">>
TextSoon == <<"s","o","o","n">>
TextFair == <<"f","a","i","r">>

ItemOld ==
    Item(Str(TitleResults), Str(<<"/","a">>), DateStr(1735689600), DateStr(1735689600),
         Undefined)
ItemNew ==
    Item(Str(TitleOpenDay), Str(<<"/","b">>), DateStr(1740787200), DateStr(1740787200),
         Str(TextFair))
\* a pubDate Date cannot parse: rss-parser then sets no isoDate
ItemJunk == Item(Str(TitleResults), Str(<<"/","c">>), Str(TextSoon), Undefined, Undefined)
ItemNoDate == Item(Str(TitleOpenDay), Str(<<"/","d">>), Undefined, Undefined, Undefined)
\* a title element with attributes and no text reaches the adapter as an object
ItemObjTitle ==
    Item(Obj, Str(<<"/","e">>), DateStr(1740787200), DateStr(1740787200), Undefined)

\* <a href="/news/123">Opening of the new wing</a> in a block with a date and a tag
LinkPage ==
    Page(NoMatches,
         << Anchor(Str(<<"/","n","e","w","s","/","1","2","3">>), <<"O","p","e","n","i","n","g"," ","o","f"," ","t","h","e"," ","n","e","w"," ","w","i","n","g">>, <<"2","0","2","5",".","1","0",".","1"," ","[","u30A4","u30D9","u30F3","u30C8","]"," ","O","p","e","n","i","n","g"," ","o","f"," ","t","h","e"," ","n","e","w"," ","w","i","n","g">>) >>)

\* one element under the second selector
SelectorPage ==
    Page([NoMatches EXCEPT ![2] =
              << Elem(<<"2","0","2","5",".","1","0",".","1","7">>, EventKana, <<"F","a","n"," ","f","e","s","t","a">>, Str(<<"/","n","e","w","s","/","5">>)) >>],
         <<>>)

\* a link whose block shows month 13
BadDatePage ==
    Page(NoMatches,
         << Anchor(Str(<<"/","n","e","w","s","/","1","2","3">>), <<"O","p","e","n","i","n","g"," ","o","f"," ","t","h","e"," ","n","e","w"," ","w","i","n","g">>, <<"2","0","2","5",".","1","3",".","1"," ","[","u30A4","u30D9","u30F3","u30C8","]"," ","O","p","e","n","i","n","g"," ","o","f"," ","t","h","e"," ","n","e","w"," ","w","i","n","g">>) >>)

\* an item without a title element
ItemNoTitle ==
    Item(Undefined, Str(<<"/","f">>), DateStr(1740787200), DateStr(1740787200), Undefined)

\* an element the first selector matches, whose link is relative to the page
RelativeLinkPage ==
    Page([NoMatches EXCEPT ![1] =
              << Elem(<<"2","0","2","5",".","1","0",".","1","7">>, <<>>, <<"F","a","n"," ","f","e","s","t","a">>, Str(<<"n","e","w","s","/","5">>)) >>],
         <<>>)

\* the first selector matches an element without a date; the page also holds the
\* news link of LinkPage
UndatedSelectorPage ==
    Page([NoMatches EXCEPT ![1] =
              << Elem(<<>>, <<>>, <<"M","e","n","u">>, Str(<<"/","n","e","w","s","/">>)) >>],
         LinkPage.anchors)

MainFeedResponses ==
    {Fail("timeout"), Ok(<<ItemOld>>), Ok(<<ItemJunk>>), Ok(<<ItemOld, ItemNew>>),
     Ok(<<ItemNew, ItemObjTitle>>)}

MainPageResponses == {FailPage("http500"), OkPage(LinkPage), OkPage(BadDatePage)}

AllFeedResponses ==
    {Fail(k) : k \in FailKinds}
        \cup {Ok(p) : p \in {<<>>, <<ItemOld>>, <<ItemNew>>, <<ItemJunk>>, <<ItemNoDate>>,
                             <<ItemObjTitle>>, <<ItemOld, ItemNew>>,
                             <<ItemNew, ItemObjTitle>>, <<ItemNoTitle>>}}

\* <a href="/news/77">Stadium tour guide</a> in a block without a date
UndatedLinkPage ==
    Page(NoMatches,
         << Anchor(Str(<<"/","n","e","w","s","/","7","7">>), <<"S","t","a","d","i","u","m"," ","t","o","u","r"," ","g","u","i","d","e">>, <<"S","t","a","d","i","u","m"," ","t","o","u","r"," ","g","u","i","d","e">>) >>)

\* the link of LinkPage and a link whose block shows month 13
MixedDatePage == Page(NoMatches, LinkPage.anchors \o BadDatePage.anchors)

\* the link of LinkPage and a link whose block shows the 30th of February
OverflowDatePage ==
    Page(NoMatches,
         LinkPage.anchors \o
         << Anchor(Str(<<"/","n","e","w","s","/","7","7">>), <<"S","t","a","d","i","u","m"," ","t","o","u","r"," ","g","u","i","d","e">>, <<"2","0","2","5",".","2",".","3","0"," ","S","t","a","d","i","u","m"," ","t","o","u","r"," ","g","u","i","d","e">>) >>)

\* items per bulk feed and entries per long page
BulkSize == 40

\* the day of the n-th entry of a long page: the days run 8, 15, 22, 1, 8, ...
bulkDay(n) ==
    LET d == ((n * 7) % 28) + 1
    IN  IF d < 10 THEN <<Digits[d + 1]>> ELSE <<Digits[(d \div 10) + 1], Digits[(d % 10) + 1]>>

\* BulkSize elements under the first selector, not in the order of their dates
BulkSelectorPage ==
    Page([NoMatches EXCEPT ![1] =
              [n \in 1..BulkSize |->
                  Elem(<<"2","0","2","5",".","1","0",".">> \o bulkDay(n), <<>>,
                       <<"F","a","n"," ","f","e","s","t","a">>,
                       Str(<<"/","n","e","w","s","/","5">>))]],
         <<>>)

\* BulkSize news links, every fourth in a block without a date
BulkLinkPage ==
    Page(NoMatches,
         [n \in 1..BulkSize |->
             Anchor(Str(<<"/","n","e","w","s","/","7","7">>),
                    <<"S","t","a","d","i","u","m"," ","t","o","u","r"," ","g","u","i","d","e">>,
                    IF n % 4 = 0 THEN <<>>
                    ELSE <<"2","0","2","5",".","1","0",".">> \o bulkDay(n))])

AllPageResponses ==
    {FailPage(k) : k \in FailKinds}
        \cup {OkPage(p) : p \in {Page(NoMatches, <<>>), LinkPage, SelectorPage, BadDatePage,
                                 RelativeLinkPage, UndatedSelectorPage, UndatedLinkPage,
                                 BulkSelectorPage, BulkLinkPage, MixedDatePage,
                                 OverflowDatePage}}

TickSteps == {1, stdTTL}

(***************************************************************************)
(* Specification Spec: one client calling getAllEvents again and again.    *)
(***************************************************************************)
StepOf(Cs, FeedResponses, PageResponses) ==
    \/ \E d \in TickSteps : Tick(d)
    \/ \E c \in Cs, route \in Routes : HandleHit(c, route)
    \/ \E c \in Cs, route \in Routes : HandleMiss(c, route)
    \/ \E c \in Cs, k \in 1..NumFeeds, resp \in FeedResponses : FeedSettle(c, k, resp)
    \/ \E c \in Cs, resp \in FeedResponses : PRTimesAnswer(c, resp)
    \/ \E c \in Cs, resp \in PageResponses : FCTokyoSettle(c, resp)
    \/ \E c \in Cs : HandleFinish(c)

Step(FeedResponses, PageResponses) == StepOf(Clients, FeedResponses, PageResponses)

Next == Step(MainFeedResponses, MainPageResponses)

Spec == Init /\ [][Next]_vars

(***************************************************************************)
(* Specification SpecBulk: the same program against feeds that carry many  *)
(* items.                                                                  *)
(***************************************************************************)
\* a feed of BulkSize items
BulkFeed ==
    [k \in 1..BulkSize |->
        Item(Str(TitleResults), Str(<<"/","a">>), DateStr(1735689600 + k),
             DateStr(1735689600 + k), Undefined)]

BulkFeedResponses == {Fail("timeout"), Ok(BulkFeed)}

NextBulk == Step(BulkFeedResponses, MainPageResponses)

SpecBulk == Init /\ [][NextBulk]_vars

(***************************************************************************)
(* Specification SpecRace: two clients whose fetch cycles may overlap.     *)
(***************************************************************************)
RaceFeedResponses == {Ok(<<ItemOld>>), Ok(<<ItemJunk>>)}

RaceCompanyResponses == {Fail("refused"), Ok(<<ItemJunk>>)}

RacePageResponses == {OkPage(LinkPage)}

NextRace ==
    \/ \E c \in AllClients, route \in Routes : HandleHit(c, route)
    \/ \E c \in AllClients, route \in Routes : HandleMiss(c, route)
    \/ \E c \in AllClients, k \in 1..NumFeeds, resp \in RaceFeedResponses :
          FeedSettle(c, k, resp)
    \/ \E c \in AllClients, resp \in RaceCompanyResponses : PRTimesAnswer(c, resp)
    \/ \E c \in AllClients, resp \in RacePageResponses : FCTokyoSettle(c, resp)
    \/ \E c \in AllClients : HandleFinish(c)

SpecRace == Init /\ [][NextRace]_vars

(***************************************************************************)
(* Specification SpecLive: upstreams that may never answer.  A request     *)
(* that is not answered ends when its timer fires; the timers and the      *)
(* continuation of the await are what is sure to happen.                   *)
(***************************************************************************)
\* new Parser({ customFields }) of lines 9-13 gives no timeout: rss-parser then
\* applies its default of 60000 ms to every parseURL
parserOptions == [timeout |-> 60 * 1000]

axiosOptions_NoTimeout == [timeout |-> 0]

\* the options of axios.get, lines 59-64; a timeout of 0 means none
axiosOptions == [timeout |-> 10 * 1000]

\* the timer of parser.parseURL fires for a plain feed
FeedTimeout(c, k) ==
    /\ parserOptions.timeout > 0
    /\ FeedSettle(c, k, Fail("timeout"))

\* the timer of parser.parseURL fires for the current company id
PRTimesTimeout(c) ==
    /\ parserOptions.timeout > 0
    /\ PRTimesAnswer(c, Fail("timeout"))

\* the timer of axios.get fires
FCTokyoTimeout(c) ==
    /\ axiosOptions.timeout > 0
    /\ FCTokyoSettle(c, FailPage("timeout"))

LiveFeedResponses == {Ok(<<ItemOld>>)}

LivePageResponses == {OkPage(LinkPage)}

NextLive ==
    \/ \E c \in Clients, route \in Routes : HandleHit(c, route)
    \/ \E c \in Clients, route \in Routes : HandleMiss(c, route)
    \/ \E c \in Clients, k \in 1..NumFeeds, resp \in LiveFeedResponses :
          FeedSettle(c, k, resp)
    \/ \E c \in Clients, resp \in LiveFeedResponses : PRTimesAnswer(c, resp)
    \/ \E c \in Clients, resp \in LivePageResponses : FCTokyoSettle(c, resp)
    \/ \E c \in Clients, k \in 1..NumFeeds : FeedTimeout(c, k)
    \/ \E c \in Clients : PRTimesTimeout(c)
    \/ \E c \in Clients : FCTokyoTimeout(c)
    \/ \E c \in Clients : HandleFinish(c)

FairLive ==
    \A c \in Clients :
        /\ \A k \in 1..NumFeeds : WF_vars(FeedTimeout(c, k))
        /\ WF_vars(PRTimesTimeout(c))
        /\ WF_vars(FCTokyoTimeout(c))
        /\ WF_vars(HandleFinish(c))

SpecLive == Init /\ [][NextLive]_vars /\ FairLive

(***************************************************************************)
(* Specification SpecAdapters: each adapter run on its own, from the call  *)
(* to the value it hands back, against every kind of answer.               *)
(***************************************************************************)
RECURSIVE prTimesLoop(_, _, _, _)
\* the for loop of lines 230-248 from the i-th id on
prTimesLoop(allItems, resps, i, t) ==
    IF i > NumCompanyIds THEN allItems
    ELSE prTimesLoop(prTimesItems(allItems, resps[i], companyIds[i], t), resps, i + 1, t)

\* fetchPRTimesCompanies(), given the answers of the company feeds
fetchPRTimesCompanies(resps, t) == Fulfilled(prTimesLoop(<<>>, resps, 1, t))

RunFeed(k, resp) ==
    /\ arun = NotRun
    /\ arun' = [ran |-> TRUE, adapter |-> "feed", source |-> allFeeds[k],
                resps |-> <<resp>>, out |-> fetchRSSFeed(resp, allFeeds[k], now)]
    /\ UNCHANGED <<now, ticks, nreq, calls, cache, lastSet, req, cin, cout, http>>

RunPRTimes(resps) ==
    /\ arun = NotRun
    /\ arun' = [ran |-> TRUE, adapter |-> "prtimes", source |-> <<"PRTIMES">>,
                resps |-> resps, out |-> fetchPRTimesCompanies(resps, now)]
    /\ UNCHANGED <<now, ticks, nreq, calls, cache, lastSet, req, cin, cout, http>>

RunFCTokyo(resp) ==
    /\ arun = NotRun
    /\ arun' = [ran |-> TRUE, adapter |-> "fctokyo", source |-> FCTokyoSource,
                resps |-> <<resp>>, out |-> fetchFCTokyoRSS(resp, now)]
    /\ UNCHANGED <<now, ticks, nreq, calls, cache, lastSet, req, cin, cout, http>>

NextAdapters ==
    \/ \E k \in DOMAIN allFeeds, resp \in AllFeedResponses : RunFeed(k, resp)
    \/ \E resps \in [1..NumCompanyIds -> AllFeedResponses] : RunPRTimes(resps)
    \/ \E resp \in AllPageResponses : RunFCTokyo(resp)

SpecAdapters == Init /\ [][NextAdapters]_vars

(***************************************************************************)
(* Specification SpecText: the text-based extraction on every body text of *)
(* at most MaxLines lines drawn from TextLines.                            *)
(***************************************************************************)
MaxLines == 4

DateLine == <<"2","0","2","5",".","1","0",".","1","7">>
BadDateLine == <<"2","0","2","5",".","1","3",".","1">>
CategoryLine == <<" ", "[">> \o EventKana \o <<"]">>
TitleLine == <<"F","a","n"," ","f","e","s","t","a"," ","d","a","y">>
ShortLine == <<"M","e","n","u">>
DashLine == <<"-","-","-","-","-","-","-","-","-","-","-","-">>

TextLines == {DateLine, BadDateLine, CategoryLine, TitleLine, ShortLine, DashLine}

\* a body of BulkSize date, category and title lines in turn
BulkBody ==
    [n \in 1..(3 * BulkSize) |->
        IF n % 3 = 1 THEN DateLine ELSE IF n % 3 = 2 THEN CategoryLine ELSE TitleLine]

TextBodies == UNION {[1..n -> TextLines] : n \in 0..MaxLines} \cup {BulkBody}

RunText(lines) ==
    /\ arun = NotRun
    /\ arun' = [ran |-> TRUE, adapter |-> "fctokyo-text", source |-> FCTokyoSource,
                resps |-> lines, out |-> fetchFCTokyoText(lines)]
    /\ UNCHANGED <<now, ticks, nreq, calls, cache, lastSet, req, cin, cout, http>>

NextText == \E lines \in TextBodies : RunText(lines)

SpecText == Init /\ [][NextText]_vars

(***************************************************************************)
(* Specification SpecMerge: the sort of getAllEvents, src/server.js line   *)
(* 399, on every concatenation of at most MaxMerged records whose dates    *)
(* are drawn from MergeDates; the n-th record carries the link n.          *)
(***************************************************************************)
MaxMerged == 7

MergeDates == {DateStr(1735689600), DateStr(1740787200), Str(TextSoon)}

MergeRecord(n, pubDate) ==
    [title |-> Str(TitleResults), link |-> Str(<<Digits[n + 1]>>), pubDate |-> pubDate,
     source |-> allFeeds[1], description |-> Str(<<>>), isEvent |-> Bool(FALSE)]

MergeInputs ==
    UNION {{[n \in 1..len |-> MergeRecord(n, dates[n])] : dates \in [1..len -> MergeDates]} :
              len \in 0..MaxMerged}

RunMerge(allEvents) ==
    /\ arun = NotRun
    /\ arun' = [ran |-> TRUE, adapter |-> "merge", source |-> <<>>,
                resps |-> allEvents, out |-> Fulfilled(sortByDate(allEvents))]
    /\ UNCHANGED <<now, ticks, nreq, calls, cache, lastSet, req, cin, cout, http>>

NextMerge == \E allEvents \in MergeInputs : RunMerge(allEvents)

SpecMerge == Init /\ [][NextMerge]_vars

(***************************************************************************)
(* The handler of GET /api/events/gizmodo of the earlier server,           *)
(* src/unnamed/part_000 lines 43-72, with its helpers isEventRelated(item) *)
(* and extractImageUrl(item), lines 169-195, and its cache of line 23.     *)
(***************************************************************************)
gizmodoTTL == 3600

gizmodoKey == "gizmodo"

\* .slice(0, 20), line 64
gizmodoLimit == 20

Null == [t |-> "null"]

\* an object with a url property, as item.enclosure and item.thumbnail
WithUrl(url) == [t |-> "object", url |-> url]

\* v.url of a truthy v
urlOf(v) == IF "url" \in DOMAIN v THEN v.url ELSE Undefined

GizmodoItem(guid, link, title, contentSnippet, content, pubDate, enclosure, thumbnail) ==
    [guid |-> guid, link |-> link, title |-> title, contentSnippet |-> contentSnippet,
     content |-> content, contentEncoded |-> Undefined, pubDate |-> pubDate,
     isoDate |-> Undefined, enclosure |-> enclosure, thumbnail |-> thumbnail]

\* the keywords of lines 170-174
gizmodoKeywords ==
    <<
       <<"u30A4","u30D9","u30F3","u30C8">>,
       <<"u30AD","u30E3","u30F3","u30DA","u30FC","u30F3">>,
       <<"u958B","u50AC">>,
       <<"u767A","u58F2">>,
       <<"u30EA","u30EA","u30FC","u30B9">>,
       <<"u30AA","u30FC","u30D7","u30F3">>,
       <<"u958B","u696D">>,
       <<"u5C55","u793A">>,
       <<"u30BB","u30FC","u30EB">>,
       <<"u30D5","u30A7","u30B9">>,
       <<"u30D5","u30A7","u30A2">>,
       <<"u30EF","u30FC","u30AF","u30B7","u30E7","u30C3","u30D7">>,
       <<"u4F53","u9A13">>,
       <<"u9650","u5B9A">>,
       <<"u65B0","u4F5C">>,
       <<"u767B","u5834">>
    >>

\* `${v}`: the string a template literal makes of a value
templateText(v) ==
    CASE v.t = "string" -> v.s
      [] v.t = "undefined" -> <<"u","n","d","e","f","i","n","e","d">>
      [] v.t = "null" -> <<"n","u","l","l">>
      [] v.t = "object" -> <<"[","o","b","j","e","c","t"," ","O","b","j","e","c","t","]">>

\* isEventRelated(item), lines 169-178
isEventRelatedItem(item) ==
    LET text == toLowerCase(templateText(item.title) \o <<" ">>
                              \o templateText(Or(item.contentSnippet, Str(<<>>))))
    IN  \E i \in DOMAIN gizmodoKeywords : includes(text, gizmodoKeywords[i])

ImgTag == <<"<","i","m","g">>

SrcAttr == <<"s","r","c","=","\"">>

RECURSIVE captureEnd(_, _)
\* the first '"' or '>' at or after e, 0 when there is none
captureEnd(s, e) ==
    IF e > Len(s) THEN 0
    ELSE IF s[e] \in {"\"", ">"} THEN e
    ELSE captureEnd(s, e + 1)

\* where src=" may stand for a tag that opens at p: after at least one character
\* of the tag, none of them '>', and followed by a value of at least one character
\* that a '"' closes
srcPlaces(s, p) ==
    {q \in (p + 5)..Len(s) :
        /\ MatchesAt(s, SrcAttr, q)
        /\ \A i \in (p + 4)..(q - 1) : s[i] # ">"
        /\ LET e == captureEnd(s, q + 5)
           IN  e > q + 5 /\ s[e] = "\""}

RECURSIVE imgMatchFrom(_, _)
\* content.match(/<img[^>]+src="([^">]+)"/): group 1 of the leftmost match, where
\* [^>]+ takes as much as it can; <<>> for null
imgMatchFrom(s, p) ==
    IF p > Len(s) THEN <<>>
    ELSE IF MatchesAt(s, ImgTag, p) /\ srcPlaces(s, p) # {}
    THEN LET q == CHOOSE q \in srcPlaces(s, p) : \A r \in srcPlaces(s, p) : r <= q
         IN  SubSeq(s, q + 5, captureEnd(s, q + 5) - 1)
    ELSE imgMatchFrom(s, p + 1)

\* the content extractImageUrl searches, line 188
imageContent(item) == Or(Or(item.content, item.contentEncoded), Str(<<>>))

\* content.match raises a TypeError when content is not a string
extractImageUrlThrows(item) ==
    /\ ~(Truthy(item.enclosure) /\ Truthy(urlOf(item.enclosure)))
    /\ ~(Truthy(item.thumbnail) /\ Truthy(urlOf(item.thumbnail)))
    /\ ~IsString(imageContent(item))

\* extractImageUrl(item), lines 180-195, when it does not raise
extractImageUrl(item) ==
    IF Truthy(item.enclosure) /\ Truthy(urlOf(item.enclosure)) THEN urlOf(item.enclosure)
    ELSE IF Truthy(item.thumbnail) /\ Truthy(urlOf(item.thumbnail))
    THEN urlOf(item.thumbnail)
    ELSE LET imgMatch == imgMatchFrom(Chars(imageContent(item)), 1)
         IN  IF imgMatch # <<>> THEN Str(imgMatch) ELSE Null

\* the object literal of lines 54-63
gizmodoEvent(item) ==
    [id |-> Or(item.guid, item.link),
     title |-> item.title,
     description |-> Or(item.contentSnippet, item.content),
     url |-> item.link,
     publishDate |-> Or(item.pubDate, item.isoDate),
     source |-> <<"GIZMODO">>,
     category |-> <<"u30C6","u30C3","u30AF">>,
     imageUrl |-> extractImageUrl(item)]

gizmodoParse_Swallow(resp) ==
    [thrown |-> FALSE, items |-> IF resp.kind = "ok" THEN resp.items ELSE <<>>]

\* await parser.parseURL(...), line 50: the feed's items, or a raise
gizmodoParse(resp) ==
    IF resp.kind = "ok" THEN [thrown |-> FALSE, items |-> resp.items]
    ELSE [thrown |-> TRUE, items |-> <<>>]

\* lines 50-64: the events built from the answer, or a raise
gizmodoEvents(resp) ==
    LET feed == gizmodoParse(resp)
        related == SelectSeq(feed.items, isEventRelatedItem)
    IN  IF feed.thrown \/ \E i \in DOMAIN related : extractImageUrlThrows(related[i])
        THEN [thrown |-> TRUE, events |-> <<>>]
        ELSE [thrown |-> FALSE,
              events |-> slice([i \in DOMAIN related |-> gizmodoEvent(related[i])],
                               gizmodoLimit)]

\* cache.set('gizmodo', events) on the cache of line 23
gizmodoCacheSet(c, key, value, at) ==
    [c EXCEPT ![key] = [has |-> TRUE, v |-> value, t |-> at + gizmodoTTL]]

GizmodoIdle == [pc |-> "idle", hit |-> FALSE, at |-> 0, resp |-> Fail("none")]

GizmodoRes(status, events) == [status |-> status, events |-> events]

InitGizmodo ==
    /\ now = 1761955200
    /\ ticks = 0
    /\ nreq = 0
    /\ calls = 0
    /\ cache = [k \in {gizmodoKey} |-> NoEntry]
    /\ lastSet = 0
    /\ req = [c \in Clients |-> GizmodoIdle]
    /\ http = [c \in Clients |-> [route |-> "gizmodo", res |-> GizmodoRes(0, <<>>)]]
    /\ cin = Undefined
    /\ cout = NotRun
    /\ arun = NotRun

\* lines 45-48: the cache holds a value, which is the answer
GizmodoHit(c) ==
    /\ req[c].pc \in {"idle", "done"}
    /\ nreq < MaxRequests
    /\ cacheHas(cache, gizmodoKey, now)
    /\ nreq' = nreq + 1
    /\ req' = [req EXCEPT ![c] = [GizmodoIdle EXCEPT !.pc = "done", !.hit = TRUE,
                                                    !.at = now]]
    /\ http' = [http EXCEPT ![c].res = GizmodoRes(200, cache[gizmodoKey].v)]
    /\ cache' = cacheAfterGet(cache, gizmodoKey, now)
    /\ UNCHANGED <<now, ticks, calls, lastSet, cin, cout, arun>>

\* lines 45-50: no value; the feed is requested
GizmodoMiss(c) ==
    /\ req[c].pc \in {"idle", "done"}
    /\ nreq < MaxRequests
    /\ ~cacheHas(cache, gizmodoKey, now)
    /\ nreq' = nreq + 1
    /\ calls' = calls + 1
    /\ cache' = cacheAfterGet(cache, gizmodoKey, now)
    /\ req' = [req EXCEPT ![c] = [GizmodoIdle EXCEPT !.pc = "waiting", !.at = now]]
    /\ http' = [http EXCEPT ![c].res = GizmodoRes(0, <<>>)]
    /\ UNCHANGED <<now, ticks, lastSet, cin, cout, arun>>

\* lines 50-71: the answer of the feed arrives; the events are stored and sent, or
\* the catch answers with status 500
GizmodoAnswer(c, resp) ==
    /\ req[c].pc = "waiting"
    /\ req' = [req EXCEPT ![c].pc = "done", ![c].resp = resp]
    /\ LET built == gizmodoEvents(resp)
       IN  IF built.thrown
           THEN /\ http' = [http EXCEPT ![c].res = GizmodoRes(500, <<>>)]
                /\ UNCHANGED <<cache, lastSet>>
           ELSE /\ cache' = gizmodoCacheSet(cache, gizmodoKey, built.events, now)
                /\ lastSet' = now
                /\ http' = [http EXCEPT ![c].res = GizmodoRes(200, built.events)]
    /\ UNCHANGED <<now, ticks, nreq, calls, cin, cout, arun>>

(***************************************************************************)
(* Specification SpecGizmodo: one client calling GET /api/events/gizmodo   *)
(* again and again.                                                        *)
(***************************************************************************)
TitleSale == <<"S","u","m","m","e","r"," ","u30BB","u30FC","u30EB">>

ImgContent ==
    <<"<","i","m","g"," ","a","l","t","=","\"","x","\""," ","s","r","c","=","\"","/","i",".","p","n","g","\"",">">>

\* an event item with an enclosure
GizmodoSale ==
    GizmodoItem(Str(<<"g","1">>), Str(<<"/","a">>), Str(TitleSale), Undefined, Undefined,
                DateStr(1740787200), WithUrl(Str(<<"/","e",".","p","n","g">>)), Undefined)

\* an event item whose image stands in its content
GizmodoSaleImg ==
    GizmodoItem(Undefined, Str(<<"/","b">>), Str(TitleSale), Undefined, Str(ImgContent),
                DateStr(1735689600), Undefined, Undefined)

\* an item that is no event
GizmodoResults ==
    GizmodoItem(Str(<<"g","3">>), Str(<<"/","c">>), Str(TitleResults), Undefined, Undefined,
                DateStr(1735689600), Undefined, Undefined)

\* an event item whose content is not a string
GizmodoSaleObj ==
    GizmodoItem(Str(<<"g","4">>), Str(<<"/","d">>), Str(TitleSale), Undefined, Obj,
                DateStr(1735689600), Undefined, Undefined)

GizmodoResponses ==
    {Fail(k) : k \in FailKinds}
        \cup {Ok(items) : items \in {<<>>, <<GizmodoSale>>, <<GizmodoResults>>,
                                    <<GizmodoSaleImg, GizmodoSale>>, <<GizmodoSaleObj>>}}

GizmodoTickSteps == {1, gizmodoTTL}

NextGizmodo ==
    \/ \E d \in GizmodoTickSteps : Tick(d)
    \/ \E c \in Clients : GizmodoHit(c)
    \/ \E c \in Clients : GizmodoMiss(c)
    \/ \E c \in Clients, resp \in GizmodoResponses : GizmodoAnswer(c, resp)

SpecGizmodo == InitGizmodo /\ [][NextGizmodo]_vars

(***************************************************************************)
(* Specification SpecClassifier: isEventRelated on every text up to        *)
(* MaxTextLen over a small alphabet, on undefined and on two sentences.    *)
(***************************************************************************)
ClassifierAlphabet == {"f", "a", "i", "r", "F", "u9650", "u5B9A"}

SummerFestivalCampaign == <<"S","u","m","m","e","r"," ","F","e","s","t","i","v","a","l"," ","c","a","m","p","a","i","g","n">>

QuarterlyFinancialReport == <<"Q","u","a","r","t","e","r","l","y"," ","f","i","n","a","n","c","i","a","l"," ","r","e","p","o","r","t">>

ClassifierTexts ==
    UNION {[1..n -> ClassifierAlphabet] : n \in 0..MaxTextLen}
        \cup {SummerFestivalCampaign, QuarterlyFinancialReport}

ClassifierInputs == {Undefined} \cup {Str(s) : s \in ClassifierTexts}

InitClassifier ==
    /\ InitOrch
    /\ cin \in ClassifierInputs
    /\ cout = NotRun
    /\ arun = NotRun

\* one call isEventRelated(cin): it raises, or it returns a value
Classify ==
    /\ cout = NotRun
    /\ cout' = IF isEventRelatedThrows(cin)
               THEN [ran |-> TRUE, raised |-> TRUE, value |-> FALSE]
               ELSE [ran |-> TRUE, raised |-> FALSE, value |-> isEventRelated(cin)]
    /\ UNCHANGED <<now, ticks, nreq, calls, cache, lastSet, req, cin, arun, http>>

NextClassifier == Classify

SpecClassifier == InitClassifier /\ [][NextClassifier]_vars

(***************************************************************************)
(* Properties of getAllEvents.                                             *)
(***************************************************************************)
\* the client's call has returned a sequence
Returned(c) == req[c].pc = "done" /\ req[c].out.st = "returned"

\* record a's publication time is before record b's, as Date compares them
publishedBefore(a, b) ==
    /\ NewDate(a.pubDate) # NaN
    /\ NewDate(b.pubDate) # NaN
    /\ NewDate(a.pubDate) < NewDate(b.pubDate)

sortedNonIncreasing(events) ==
    \A i \in 1..Len(events), j \in 1..Len(events) :
        i < j => ~publishedBefore(events[i], events[j])

\* C1: whatever the adapters hand back and whatever the cache holds, the sequence
\* getAllEvents returns is sorted by publication time, latest first: no record
\* comes before a record published after it.
C1_SortedNonIncreasing ==
    \A c \in Clients : Returned(c) => sortedNonIncreasing(req[c].out.events)

\* the configured maximum of /api/events/all, src/unnamed/part_000 line 158
MaxEvents == 100

\* C2: however many records the adapters hand back, getAllEvents returns at most
\* MaxEvents records, on a miss and on a hit.
C2_AtMostMaxEvents ==
    \A c \in Clients : Returned(c) => Len(req[c].out.events) <= MaxEvents

\* C3: a call made while the cache holds an entry set less than stdTTL ago returns
\* that entry's value at once, the empty sequence included; it issues no upstream
\* request and leaves the cache as it is.
C3_HitFetchesNothing ==
    [][\A c \in Clients :
          (nreq' = nreq + 1 /\ req'[c] # req[c]
              /\ cache[cacheKey].has /\ lastSet # 0 /\ now < lastSet + stdTTL)
          => /\ calls' = calls
             /\ cache' = cache
             /\ lastSet' = lastSet
             /\ req'[c].pc = "done"
             /\ req'[c].out = [st |-> "returned", events |-> cache[cacheKey].v]]_vars

\* C3 happens: a call was served the empty sequence from the cache
C3_EmptyHitServed ==
    \E c \in Clients : Returned(c) /\ req[c].hit /\ req[c].out.events = <<>> /\ calls > 0

\* the upstream answer makes the adapter's fetch fail: the request fails, or an item
\* of the feed cannot be mapped
feedAnswerFails(resp) ==
    resp.kind \in FailKinds \/ \E i \in DOMAIN resp.items : resp.items[i].title = Obj

\* the page request fails, or the page shows a date that does not exist
pageAnswerFails(resp) ==
    resp.kind \in FailKinds \/ resp.page \in {BadDatePage, MixedDatePage}

linksOf(events) == [i \in DOMAIN events |-> Chars(events[i].link)]

\* the links of the records a feed answer stands for
feedAnswerLinks(resp) ==
    IF feedAnswerFails(resp) THEN <<>>
    ELSE [i \in DOMAIN resp.items |-> Chars(resp.items[i].link)]

\* the links of the records a page of news anchors stands for
pageAnswerLinks(resp) ==
    IF pageAnswerFails(resp) THEN <<>>
    ELSE [i \in DOMAIN resp.page.anchors |-> BaseUrl \o Chars(resp.page.anchors[i].href)]

RECURSIVE answersLinks(_, _)
answersLinks(resps, i) ==
    IF i > Len(resps) THEN <<>>
    ELSE feedAnswerLinks(resps[i]) \o answersLinks(resps, i + 1)

\* the links of every record the answers of the cycle stand for
cycleLinks(r) ==
    answersLinks([k \in 1..NumFeeds |-> r.feed[k].resp], 1)
        \o answersLinks(r.pr.resps, 1) \o pageAnswerLinks(r.fc.resp)

occurrences(s, x) == Cardinality({i \in DOMAIN s : s[i] = x})

sameBag(s, t) ==
    /\ Len(s) = Len(t)
    /\ \A i \in DOMAIN s : occurrences(s, s[i]) = occurrences(t, s[i])

\* the miss cycle of the client's call has ended
CycleDone(c) == req[c].pc = "done" /\ ~req[c].hit

someAnswerFails(r) ==
    \/ \E k \in 1..NumFeeds : feedAnswerFails(r.feed[k].resp)
    \/ \E i \in DOMAIN r.pr.resps : feedAnswerFails(r.pr.resps[i])
    \/ pageAnswerFails(r.fc.resp)

everyAnswerFails(r) ==
    /\ \A k \in 1..NumFeeds : feedAnswerFails(r.feed[k].resp)
    /\ \A i \in DOMAIN r.pr.resps : feedAnswerFails(r.pr.resps[i])
    /\ pageAnswerFails(r.fc.resp)

\* C4: when an adapter fails in a miss cycle while others hand back records,
\* getAllEvents returns exactly the records of the others: the failure removes
\* nothing, adds nothing and aborts nothing.
C4_FailureLeavesOthers ==
    \A c \in Clients :
        (CycleDone(c) /\ someAnswerFails(req[c]) /\ ~everyAnswerFails(req[c]))
        => /\ Returned(c)
           /\ sameBag(linksOf(req[c].out.events), cycleLinks(req[c]))

\* C4 happens: the first feed failed, the company feeds gave three records, and
\* three records were returned
C4_OneFailedOthersReturned ==
    \E c \in Clients :
        /\ CycleDone(c) /\ Returned(c)
        /\ NumFeeds > 0 /\ feedAnswerFails(req[c].feed[1].resp)
        /\ Len(answersLinks(req[c].pr.resps, 1)) = 3
        /\ pageAnswerFails(req[c].fc.resp)
        /\ Len(req[c].out.events) = 3

\* C8: when every adapter fails in the same cycle, getAllEvents still returns, and
\* what it returns is the empty sequence.
C8_AllFailReturnsEmpty ==
    \A c \in Clients :
        (CycleDone(c) /\ everyAnswerFails(req[c]))
        => Returned(c) /\ req[c].out.events = <<>>

\* C8 happens: a cycle ended in which requests failed, an item could not be mapped
\* and the page could not be read
C8_AllFailed ==
    \E c \in Clients :
        /\ CycleDone(c) /\ everyAnswerFails(req[c]) /\ Returned(c)
        /\ \E k \in 1..NumFeeds : req[c].feed[k].resp.kind = "ok"
        /\ \E i \in DOMAIN req[c].pr.resps : req[c].pr.resps[i].kind \in FailKinds
        /\ req[c].fc.resp.kind = "ok"

\* C9: with the last cache.set at t0, a call strictly before t0 + stdTTL is served
\* the stored value and fetches nothing, and a call strictly after t0 + stdTTL is
\* served nothing from the cache and starts a new fetch cycle.
C9_EntryExpiresAfterTTL ==
    [][\A c \in Clients :
          (nreq' = nreq + 1 /\ req'[c] # req[c] /\ lastSet # 0)
          => /\ now < lastSet + stdTTL
                => /\ req'[c].hit
                   /\ req'[c].out = [st |-> "returned", events |-> cache[cacheKey].v]
             /\ now > lastSet + stdTTL
                => /\ ~req'[c].hit
                   /\ req'[c].pc = "waiting"
                   /\ req'[c].out = NoOut
                   /\ calls' > calls
                   /\ ~cache'[cacheKey].has]_vars

\* C9 happens: a call made later than stdTTL after the last cache.set is fetching
C9_RefetchAfterExpiry ==
    \E c \in Clients :
        /\ req[c].pc = "waiting"
        /\ req[c].entryAt # 0
        /\ req[c].at > req[c].entryAt + stdTTL

\* C26: what a miss cycle returns is a permutation of the concatenation of the
\* sequences its adapters returned: no record is dropped, doubled or merged with
\* another, whatever links the records share.
C26_MergeIsPermutation ==
    \A c \in Clients :
        (CycleDone(c) /\ Returned(c))
            => sameBag(req[c].out.events, concatAll(req[c]))

\* C26 happens: a cycle returned two records of different sources with one link
C26_SharedLinkBothKept ==
    \E c \in Clients :
        /\ CycleDone(c) /\ Returned(c)
        /\ \E i, j \in DOMAIN req[c].out.events :
              /\ req[c].out.events[i].link = req[c].out.events[j].link
              /\ req[c].out.events[i].source # req[c].out.events[j].source

\* the endpoints of one fetch cycle: the feeds, the company feeds, the page
cycleEndpoints == NumFeeds + NumCompanyIds + 1

\* C27: nothing is retried.  While a cycle waits, a step issues a request only
\* when the company loop moves on to its next id, so that a cycle requests each
\* endpoint at most once; any other request is issued by a call that finds no
\* entry or an entry older than stdTTL.
C27_NoRetry ==
    [][\A c \in Clients :
          /\ req[c].pc = "waiting"
                => /\ calls' - calls \in {0, 1}
                   /\ calls' = calls + 1
                         => /\ Len(req'[c].pr.resps) = Len(req[c].pr.resps) + 1
                            /\ Len(req'[c].pr.resps) < NumCompanyIds
                   /\ req'[c].pc = "done" => calls' = calls
          /\ (req[c].pc # "waiting" /\ calls' # calls)
                => /\ nreq' = nreq + 1
                   /\ req'[c].pc = "waiting"
                   /\ lastSet = 0 \/ now > lastSet + stdTTL
                   /\ calls' = calls + NumFeeds + 2]_vars

\* C27 happens: the first cycle ended with a failed source and one request for
\* each endpoint
C27_FailedSourceAskedOnce ==
    \E c \in Clients :
        /\ CycleDone(c)
        /\ someAnswerFails(req[c])
        /\ calls = cycleEndpoints

\* C29: a cycle in which every adapter fails stores the empty sequence, and while
\* that entry is younger than stdTTL every call returns the empty sequence from it
\* and issues no request, whatever the sources would answer by then.
C29_EmptyResultIsCached ==
    [][\A c \in Clients :
          /\ (req[c].pc = "waiting" /\ req'[c].pc = "done" /\ everyAnswerFails(req[c]))
                => cache'[cacheKey] = [has |-> TRUE, v |-> <<>>, t |-> now + stdTTL]
          /\ (nreq' = nreq + 1 /\ req'[c] # req[c]
                 /\ cache[cacheKey].has /\ cache[cacheKey].v = <<>>
                 /\ now < cache[cacheKey].t)
                => /\ req'[c].hit
                   /\ req'[c].out = [st |-> "returned", events |-> <<>>]
                   /\ calls' = calls
                   /\ AdapterStates(req'[c]) = {"idle"}]_vars

\* C29 happens: some time after an all-failed cycle stored the empty sequence, a
\* call was served the empty sequence from the cache
C29_EmptyServedLater ==
    \E c \in Clients :
        /\ Returned(c) /\ req[c].hit /\ req[c].out.events = <<>>
        /\ req[c].entryAt # 0
        /\ req[c].at > req[c].entryAt
        /\ calls = cycleEndpoints

(***************************************************************************)
(* Properties of the adapters.                                             *)
(***************************************************************************)
\* every answer given to the adapter run makes its fetch fail
everyRunAnswerFails ==
    IF arun.adapter = "fctokyo" THEN pageAnswerFails(arun.resps[1])
    ELSE \A i \in DOMAIN arun.resps : feedAnswerFails(arun.resps[i])

\* C5: no adapter hands a fault to its caller: whatever goes wrong (the request
\* times out, is refused, is answered with an error status or with a payload that
\* does not parse, or mapping or extracting an item raises), the adapter's fetch
\* completes and its value is the empty sequence.
C5_AdaptersNeverRaise ==
    arun.ran =>
        /\ arun.out.st = "fulfilled"
        /\ everyRunAnswerFails => arun.out.val = <<>>

\* C5 happens: the scrape adapter was run on a page whose extraction raises
C5_ExtractionRaised ==
    /\ arun.ran
    /\ arun.adapter = "fctokyo"
    /\ arun.resps[1] = OkPage(BadDatePage)
    /\ arun.out = Fulfilled(<<>>)

\* C6: the company feeds are isolated from each other: the adapter returns the
\* records of the ids whose feed was read, in the order of the ids, wherever in
\* the list the failing ids are.
C6_PerIdIsolation ==
    (arun.ran /\ arun.adapter = "prtimes")
        => /\ arun.out.st = "fulfilled"
           /\ linksOf(arun.out.val) = answersLinks(arun.resps, 1)

\* C6 happens: the first id's feed failed and the second id's feed gave two records
C6_FirstIdFailed ==
    /\ arun.ran
    /\ arun.adapter = "prtimes"
    /\ arun.resps[1].kind \in FailKinds
    /\ arun.resps[2] = Ok(<<ItemOld, ItemNew>>)
    /\ Len(arun.out.val) >= 2

\* the label names the id
labelNames(label, id) == \E i \in DOMAIN label : label[i] = ToString(id)

RECURSIVE recordId(_, _, _)
\* the position in the id list of the feed the j-th record comes from
recordId(resps, i, j) ==
    IF i >= Len(resps) \/ j <= Len(feedAnswerLinks(resps[i])) THEN i
    ELSE recordId(resps, i + 1, j - Len(feedAnswerLinks(resps[i])))

\* C7: every record the company-feed adapter returns has a source label that
\* contains the id of the feed it was read from.
C7_SourceNamesId ==
    (arun.ran /\ arun.adapter = "prtimes")
        => \A j \in DOMAIN arun.out.val :
              labelNames(arun.out.val[j].source, companyIds[recordId(arun.resps, 1, j)])

(***************************************************************************)
(* Properties of the classifier.                                           *)
(***************************************************************************)
\* a keyword of the list occurs in the text
containsKeyword(chars) ==
    \E i \in DOMAIN eventKeywords :
        \E p \in 1..(Len(chars) - Len(eventKeywords[i]) + 1) :
            SubSeq(chars, p, p + Len(eventKeywords[i]) - 1) = eventKeywords[i]

\* C10: isEventRelated never raises; on a string it returns true exactly when the
\* lower-cased text contains a keyword of the list, and on the empty string and on
\* undefined it returns false.  "Summer Festival campaign" gives true, "Quarterly
\* financial report" gives false.
C10_ClassifierTotal ==
    cout.ran =>
        /\ ~cout.raised
        /\ cout.value = (IsString(cin) /\ containsKeyword(toLowerCase(Chars(cin))))
        /\ (cin = Undefined \/ cin = Str(<<>>)) => cout.value = FALSE
        /\ cin = Str(SummerFestivalCampaign) => cout.value = TRUE
        /\ cin = Str(QuarterlyFinancialReport) => cout.value = FALSE

\* C10 happens: a text matched a keyword only once lower-cased
C10_MatchedAfterLowering ==
    /\ cout.ran
    /\ cin = Str(<<"F", "a", "i", "r">>)
    /\ cout.value = TRUE

(***************************************************************************)
(* Properties of the scrape adapter.                                       *)
(***************************************************************************)
\* the scrape adapter has been run on the page
ScrapedPage(page) ==
    arun.ran /\ arun.adapter = "fctokyo" /\ arun.resps[1] = OkPage(page)

\* C11: on a page no selector matches, a link /news/<digits> with a text T longer
\* than the minimum, in a block showing the date 2025.10.1 and the tag [イベント],
\* gives exactly one record: title T, url the site base followed by the href,
\* publication date 2025-10-01, event flag true.
C11_LinkPatternRecord ==
    ScrapedPage(LinkPage)
        => /\ Len(arun.out.val) = 1
           /\ arun.out.val[1].title = Str(LinkPage.anchors[1].text)
           /\ arun.out.val[1].link = Str(BaseUrl \o Chars(LinkPage.anchors[1].href))
           /\ NewDate(arun.out.val[1].pubDate) = 1759276800
           /\ arun.out.val[1].isEvent = Bool(TRUE)

\* C16: every record an adapter returns has a publication date that parses as a
\* date; a missing or unparsable date of the source is replaced, not passed on.
C16_ValidPublishDate ==
    arun.ran => \A j \in DOMAIN arun.out.val : NewDate(arun.out.val[j].pubDate) # NaN

\* C17: every record an adapter returns has a title that is not empty; an item
\* that gives no title gives no record.
C17_NonEmptyTitle ==
    arun.ran => \A j \in DOMAIN arun.out.val : Chars(arun.out.val[j].title) # <<>>

hasScheme(url) ==
    startsWith(url, Http \o <<":", "/", "/">>)
        \/ startsWith(url, Http \o <<"s", ":", "/", "/">>)

\* C18: every record of the scrape adapter has an absolute url: a link that is
\* absolute in the page is kept, any other link is resolved against the site, so
\* that the url is the site base followed by a path.
C18_AbsoluteUrl ==
    (arun.ran /\ arun.adapter = "fctokyo")
        => \A j \in DOMAIN arun.out.val :
              LET url == Chars(arun.out.val[j].link)
              IN  /\ hasScheme(url)
                  /\ \/ startsWith(url, BaseUrl \o <<"/">>)
                     \/ \E i \in DOMAIN arun.resps[1].page.selected :
                           \E e \in DOMAIN arun.resps[1].page.selected[i] :
                              /\ arun.resps[1].page.selected[i][e].link = Str(url)
                              /\ ~startsWith(url, BaseUrl)

\* C19: the scrape adapter returns nothing only when every strategy finds nothing:
\* when a selector matches elements none of which gives a record, the links of the
\* page are still tried.
C19_FallsThrough ==
    (arun.ran /\ arun.adapter = "fctokyo" /\ ~pageAnswerFails(arun.resps[1])
        /\ arun.out.val = <<>>)
        => /\ SelectSeq(firstMatching(arun.resps[1].page, 1), isDatedElem) = <<>>
           /\ newsLinksOf(arun.resps[1].page) = <<>>

\* C20: the text-based extraction emits a record only for a date line followed
\* later by a category line followed later by a title line; a category line
\* before the date line does not count.
C20_DateThenCategoryThenTitle ==
    (arun.ran /\ arun.adapter = "fctokyo-text" /\ arun.out.val # <<>>)
        => \E i, j, k \in DOMAIN arun.resps :
              /\ i < j /\ j < k
              /\ isDateLine(trim(arun.resps[i]))
              /\ isCategoryLine(trim(arun.resps[j]))
              /\ isTitleLine(arun.resps[i], arun.resps[j], trim(arun.resps[k]))

\* the number of records pushed by the scan of the first n lines
pushedWithin(lines, n) == Len(textScan(SubSeq(lines, 1, n)).items)

\* C21: after a record is emitted the remembered date and category are cleared:
\* between two lines that emit a record lie a date line and a category line, and
\* the adapter returns at most 30 records.
C21_ResetAfterRecord ==
    (arun.ran /\ arun.adapter = "fctokyo-text")
        => LET lines == arun.resps
               emitting == {k \in DOMAIN lines :
                               pushedWithin(lines, k) > pushedWithin(lines, k - 1)}
           IN  /\ Len(arun.out.val) <= MaxScrapeItems
               /\ \A k1, k2 \in emitting :
                     k1 < k2 => \E i, j \in (k1 + 1)..(k2 - 1) :
                                   /\ isDateLine(trim(lines[i]))
                                   /\ isCategoryLine(trim(lines[j]))

\* a second title line right after an emitted record gave no second record
C21_SecondTitleIgnored ==
    /\ arun.ran
    /\ arun.adapter = "fctokyo-text"
    /\ arun.resps = <<DateLine, CategoryLine, TitleLine, TitleLine>>
    /\ Len(arun.out.val) = 1

\* the titles of the items of the page for which no date token is found, in the
\* strategy the adapter takes on it
undatedTitles(page) ==
    LET elems == firstMatching(page, 1)
        links == newsLinksOf(page)
    IN  IF Len(elems) = 0
        THEN {links[i].title : i \in {i \in DOMAIN links : links[i].dateText = <<>>}}
        ELSE {trim(elems[i].title) :
                 i \in {i \in DOMAIN elems : /\ trim(elems[i].title) # <<>>
                                              /\ dateMatch(trim(elems[i].dateText)) = <<>>}}

\* C22: an item of the page for which no date token is found is still returned by
\* the scrape adapter, with the fetch time as its publication date.
C22_UndatedItemEmitted ==
    (arun.ran /\ arun.adapter = "fctokyo" /\ arun.resps[1].kind = "ok"
        /\ ~extractThrows(arun.resps[1].page))
        => \A t \in undatedTitles(arun.resps[1].page) :
              \E j \in DOMAIN arun.out.val :
                 /\ arun.out.val[j].pubDate = toISOString(now)
                 /\ includes(Chars(arun.out.val[j].title), t)

\* the classifier on the record's own title and description
classifiedByText(r) == isEventRelated(r.title) \/ isEventRelated(r.description)

\* C23: the event flag of every record an adapter returns is a boolean, and it is
\* the classifier's answer on the record's own title and description.
C23_FlagIsClassifierOnText ==
    arun.ran => \A j \in DOMAIN arun.out.val :
                   arun.out.val[j].isEvent = Bool(classifiedByText(arun.out.val[j]))

\* C24: the scrape adapter returns at most 30 records, sorted by date, newest
\* first.
C24_AtMostThirtySorted ==
    (arun.ran /\ arun.adapter = "fctokyo")
        => /\ Len(arun.out.val) <= MaxScrapeItems
           /\ sortedNonIncreasing(arun.out.val)

\* a page of more than 30 elements out of order gave 30 records
C24_LongPageCut ==
    /\ arun.ran
    /\ arun.adapter = "fctokyo"
    /\ arun.resps[1] = OkPage(BulkSelectorPage)
    /\ Len(firstMatching(BulkSelectorPage, 1)) > MaxScrapeItems
    /\ Len(arun.out.val) = MaxScrapeItems

\* the place of the record with that link in events
placeOf(events, link) == CHOOSE j \in DOMAIN events : events[j].link = link

\* C25: the merge is stable: two records with the same publication date keep the
\* order they have in the concatenation.
C25_StableMerge ==
    (arun.ran /\ arun.adapter = "merge")
        => \A i, j \in DOMAIN arun.resps :
              (i < j /\ arun.resps[i].pubDate = arun.resps[j].pubDate)
                  => placeOf(arun.out.val, arun.resps[i].link)
                        < placeOf(arun.out.val, arun.resps[j].link)

\* the date tokens of the items the adapter takes from the page, as groups
takenDates(page) ==
    LET elems == slice(firstMatching(page, 1), MaxScrapeItems)
        links == slice(newsLinksOf(page), MaxScrapeItems)
    IN  IF Len(elems) = 0
        THEN {dateMatch(links[i].dateText) :
                 i \in {i \in DOMAIN links : links[i].dateText # <<>>}}
        ELSE {dateMatch(trim(elems[i].dateText)) :
                 i \in {i \in DOMAIN elems : isDatedElem(elems[i])}}

daysInMonth(y, m) ==
    IF m = 2 THEN (IF y % 4 = 0 /\ (y % 100 # 0 \/ y % 400 = 0) THEN 29 ELSE 28)
    ELSE IF m \in {4, 6, 9, 11} THEN 30 ELSE 31

\* the groups name a day of the calendar
isCalendarDate(g) ==
    /\ NumberOf(g[2]) \in 1..12
    /\ NumberOf(g[3]) \in 1..daysInMonth(NumberOf(g[1]), NumberOf(g[2]))

C31_FailureNotCached ==
    [][\A c \in Clients :
          /\ (req[c].pc = "waiting" /\ req'[c].pc = "done"
                 /\ req'[c].resp.kind \in FailKinds)
                => /\ http'[c].res = GizmodoRes(500, <<>>)
                   /\ cache' = cache
                   /\ ~cache'[gizmodoKey].has
          /\ (req[c].pc = "done" /\ ~req[c].hit /\ req[c].resp.kind \in FailKinds
                 /\ nreq' = nreq + 1)
                => /\ req'[c].pc = "waiting"
                   /\ calls' = calls + 1]_vars

\* C31 happens: nothing was ever stored, and the second request has asked the feed
\* again and failed as well
C31_AskedAgainAfterFailure ==
    \E c \in Clients :
        /\ nreq = 2 /\ calls = 2 /\ lastSet = 0
        /\ req[c].pc = "done" /\ req[c].resp.kind \in FailKinds
        /\ http[c].res.status = 500
        /\ ~cache[gizmodoKey].has

(***************************************************************************)
(* Properties of the handlers.                                             *)
(***************************************************************************)
RECURSIVE flagged(_)
\* the records flagged as events, in the order they have in events
flagged(events) ==
    IF events = <<>> THEN <<>>
    ELSE IF Head(events).isEvent = Bool(TRUE)
         THEN <<Head(events)>> \o flagged(Tail(events))
         ELSE flagged(Tail(events))

\* C12: the filtered view answers with the records of getAllEvents that are
\* flagged as events, in the same order; a filtered request made while the cache
\* holds an entry set less than stdTTL ago is answered from that entry and
\* fetches nothing.
C12_FilteredView ==
    [][\A c \in Clients :
          /\ (http'[c].route = "filtered" /\ req'[c].pc = "done"
                 /\ req'[c].out.st = "returned")
             => /\ http'[c].res.status = 200
                /\ http'[c].res.events = flagged(req'[c].out.events)
                /\ http'[c].res.count = Len(http'[c].res.events)
          /\ (nreq' = nreq + 1 /\ req'[c] # req[c] /\ http'[c].route = "filtered"
                 /\ cache[cacheKey].has /\ lastSet # 0 /\ now < lastSet + stdTTL)
             => /\ calls' = calls
                /\ cache' = cache
                /\ http'[c].res.events = flagged(cache[cacheKey].v)]_vars

\* C12 happens: a filtered request was answered from the cache with some, not all,
\* of the cached records
C12_FilteredFromCache ==
    \E c \in Clients :
        /\ http[c].route = "filtered"
        /\ req[c].hit
        /\ http[c].res.events # <<>>
        /\ Len(http[c].res.events) < Len(cache[cacheKey].v)

(***************************************************************************)
(* Properties of concurrent fetch cycles.                                  *)
(***************************************************************************)
\* the step stores a value under the key
Stores == cache'[cacheKey].has /\ cache'[cacheKey] # cache[cacheKey]

\* the step stores the whole merged result of the cycle of c, which ends with it
StoresCycleOf(c) ==
    /\ req[c].pc = "waiting"
    /\ AdapterStates(req[c]) = {"fulfilled"}
    /\ req'[c].pc = "done"
    /\ req'[c].out = [st |-> "returned", events |-> cache'[cacheKey].v]
    /\ sameBag(linksOf(cache'[cacheKey].v), cycleLinks(req[c]))

\* C13: with fetch cycles for the same key overlapping in any way, every value
\* stored under the key is the complete merged result of exactly one cycle, sorted
\* latest first, and a stored value changes only by such a store, so that the
\* value left at the end is the one of the cycle that stored last.
C13_StoredValueIsOneCycle ==
    [][/\ Stores => /\ \E c \in AllClients : StoresCycleOf(c)
                    /\ sortedNonIncreasing(cache'[cacheKey].v)
       /\ (cache[cacheKey].has /\ cache'[cacheKey].has)
              => (cache'[cacheKey].v = cache[cacheKey].v \/ Stores)]_vars

\* the step is a call of c that is served from the cache
HitStep(c) == nreq' = nreq + 1 /\ req'[c] # req[c] /\ req'[c].hit

\* C28: the stored sequence changes only when a cycle ends, and then to the whole
\* sequence that cycle returns; a hit leaves it as it is and returns it, filtered
\* on the filtered route, so that every hit between two stores returns what the
\* storing cycle returned.
C28_ReplacedWholeOnly ==
    [][/\ Stores
          => \E c \in AllClients :
                /\ req[c].pc = "waiting"
                /\ req'[c].pc = "done"
                /\ req'[c].out = [st |-> "returned", events |-> cache'[cacheKey].v]
       /\ \A c \in AllClients :
             HitStep(c)
                => /\ cache' = cache
                   /\ req'[c].out = [st |-> "returned", events |-> cache[cacheKey].v]
                   /\ http'[c].res.events
                         = IF http'[c].route = "filtered"
                           THEN filterEvents(cache[cacheKey].v)
                           ELSE cache[cacheKey].v]_vars

\* C28 happens: one client's cycle stored its sequence, and the other client's
\* filtered request was served from it while it was still the stored one
C28_FilteredHitInWindow ==
    \E c, d \in AllClients :
        /\ CycleDone(c) /\ Returned(c) /\ req[c].out.events # <<>>
        /\ cache[cacheKey].has /\ cache[cacheKey].v = req[c].out.events
        /\ Returned(d) /\ req[d].hit
        /\ http[d].route = "filtered"
        /\ http[d].res.events = filterEvents(req[c].out.events)

\* C14: a miss starts every adapter in the step that begins the wait; the call
\* returns, and the cache is written, only in a step before which every adapter
\* has settled, also when one of them has failed.
C14_WaitsForEveryAdapter ==
    [][/\ \A c \in Clients :
             /\ (req[c].pc # "waiting" /\ req'[c].pc = "waiting")
                => AdapterStates(req'[c]) = {"pending"}
             /\ (req[c].pc = "waiting" /\ req'[c].pc = "done")
                => AdapterStates(req[c]) \subseteq {"fulfilled", "rejected"}
             /\ req[c].pc = "waiting" => req'[c].pc \in {"waiting", "done"}
       /\ Stores => \E c \in Clients :
                       /\ req[c].pc = "waiting"
                       /\ AdapterStates(req[c]) \subseteq {"fulfilled", "rejected"}]_vars

\* C14 happens: an adapter has failed and the cycle is still waiting for a sibling
C14_FailedWhileSiblingInFlight ==
    \E c \in Clients :
        /\ req[c].pc = "waiting"
        /\ NumFeeds > 0
        /\ req[c].feed[1].st # "pending"
        /\ feedAnswerFails(req[c].feed[1].resp)
        /\ req[c].fc.st = "pending"

(***************************************************************************)
(* Properties of the timeouts.                                             *)
(***************************************************************************)
\* every upstream request of the cycle ended by its timer
everyRequestTimedOut(r) ==
    /\ \A k \in 1..NumFeeds : r.feed[k].resp = Fail("timeout")
    /\ Len(r.pr.resps) = NumCompanyIds
    /\ \A i \in DOMAIN r.pr.resps : r.pr.resps[i] = Fail("timeout")
    /\ r.fc.resp = FailPage("timeout")

====
